---- MODULE Spec2Model ----
(***************************************************************************)
(* Model of two parts of the makepkg library:                              *)
(*   - the command supervisor, CommandOutput::process_inner (src/run.rs),  *)
(*     with the child processes and the socket pairs as its environment;   *)
(*   - the bulk download loop, Makepkg::download_curl_sources and          *)
(*     handle_messages (src/sources/curl.rs), with libcurl's multi handle  *)
(*     and the observer callback as its environment.                       *)
(* Each part has its own specification (SpecRun, SpecDl); the variables of *)
(* the other part stay at their initial values.                            *)
(***************************************************************************)
EXTENDS Integers, Sequences, FiniteSets, TLC

VARIABLES
    \* ---- process_inner ----
    mode,          \* which wrapper called process_inner: "read", "spawn", "pipe"
    how,           \* how_output of data1 / data2, as returned by command_new
    prog,          \* bytes each child descriptor is going to write
    written,       \* how many of them were written so far
    fdclosed,      \* the child closed that descriptor
    cwant,         \* the descriptor a child is inside write() on, or "none"
    exited,        \* exit status of a child that has exited, or "running"
    wire,          \* socket (token) a child descriptor is connected to, or "none"
    sock,          \* bytes in flight in each socket pair
    woken,         \* epoll: the socket had a wakeup since it was last reported
    open,          \* the loop's `open` bit set, as a set of tokens
    evq,           \* events returned by poll and not processed yet
    cur,           \* the event being processed
    pc,            \* position of process_inner
    outbuf,        \* the caller's buffer (`output`)
    fwd,           \* chunks delivered to the policy sink (terminal, callback, file)
    ends_with_nl,
    waited,        \* children that were wait()ed
    result,        \* value returned by process_inner
    callbacks,     \* makepkg.callbacks: TRUE when an observer is installed
    makepkg_id,    \* makepkg.id, the counter of correlation ids
    ids,           \* data1.id and data2.id
    trace,         \* observer calls (command_new/output/exit) and spawns, in order
    spawned,       \* children that were spawned
    payload,       \* the `input` argument of process_inner
    input,         \* the part of the payload that is not written yet
    fed,           \* the bytes written to the stdin socket so far
    insock,        \* bytes in flight in the stdin socket pair
    inclosed,      \* the child closed its stdin
    shut,          \* number of shutdown() calls on the stdin socket
    wokenIn,       \* epoll: the stdin socket had a wakeup since it was last reported
    pipe,          \* number of bytes in the pipe between the two processes
    \* ---- download_curl_sources ----
    sources,       \* queued sources (file names), popped from the end
    total,
    handles,       \* Vec<Easy2Handle<Handle>>, in launch order
    running,
    msgq,          \* libcurl's queue of completion messages
    events,        \* DownloadEvents handed to the observer, in order
    finalf,        \* final paths that exist in srcdest
    partf,         \* length of each .part file, or -1 when absent
    dpc,           \* position of download_curl_sources
    ret,           \* value returned by download_curl_sources
    \* ---- Makepkg::fakeroot ----
    libdirs,       \* FAKEROOT_LIBDIRS, a colon separated list, as a string of bytes
    libs,          \* directories that hold the fakeroot library right now
    fakeroot,      \* Makepkg::fakeroot, the memo slot (Option<FakeRoot>)
    daemons,       \* faked processes spawned so far, each "running", "exited" or "killed"
    rets,          \* what each call of fakeroot() returned, in order
    fpc,           \* the owning Makepkg: "idle" (alive), "panicked" or "dropped"
    \* ---- download_sources ----
    all_sources,   \* the enabled sources: protocol, and whether the download path exists
    dl_agents,     \* config.dl_agents
    vcs_agents,    \* config.vcs_agents, as the set of their protocols
    downloads,     \* BTreeMap<&DownloadAgent, Vec<&Source>>, by protocol
    vcs_downloads, \* BTreeMap<&VCSClient, Vec<&Source>>, by protocol
    found,         \* sources a FoundSource event was sent for, in order
    queue,         \* what the loop of download_file or download_vcs has left to do
    atrace,        \* what was done to retrieve the sources, in order
    apc,           \* position of download_sources
    aret,          \* value returned by download_sources
    \* ---- one VCS source ----
    vsrc,          \* the source: backend, url, fragment
    hold_ver,      \* options.hold_ver
    repo,          \* the local copy in srcdest: "none", "partial" (no objects) or "full"
    origin,        \* the remote url recorded in the local copy
    work,          \* the work tree in srcdir exists
    files,         \* the ref whose files the work tree holds
    tagout,        \* name of the tag object the requested tag resolves to ("": none)
    ventry,        \* the operation last called and the copies as it found them
    vtrace,        \* events and commands of that operation, in order
    vret,          \* its result
    vops,          \* number of operations called so far
    cberr,         \* the observer returned an error for an event of the batch
    \* ---- process_inner, any arguments ----
    iargs,         \* output, logfile, ignore_stdout, pipe_into as given by the caller
    ihow,          \* how_output of data1 / data2
    ileft,         \* chunks each stream of a child is still going to write
    iwire,         \* where each stream of a child ends up
    isock,         \* chunks in flight in each socket
    inew,          \* epoll: the socket has a wakeup that was not reported yet
    iopen,         \* the loop's `open` bit set, as a set of tokens
    ibuf,          \* the caller's buffer
    ideliv,        \* every chunk read, with the sinks it was written to
    iwrote,        \* every chunk the children wrote, in order
    iexit,         \* exit status of a child, or "running"
    ipc,           \* position of process_inner
    ires,          \* the status process_inner returns
    \* ---- run_function_internal ----
    phases         \* the phases run so far: fakeroot's result, environment, spawn

\* What only the stdin side of process_inner and the pipe of a pipeline touch.
feedVars == <<payload, input, fed, insock, shut, wokenIn, pipe>>
runVars == <<mode, how, prog, written, fdclosed, cwant, exited, wire, sock, woken,
             open, evq, cur, pc, outbuf, fwd, ends_with_nl, waited, result,
             callbacks, makepkg_id, ids, trace, spawned, inclosed, feedVars>>
dlVars == <<sources, total, handles, running, msgq, events, finalf, partf, dpc, ret,
            cberr>>
frVars == <<libdirs, libs, fakeroot, daemons, rets, fpc>>
acqVars == <<all_sources, dl_agents, vcs_agents, downloads, vcs_downloads, found, queue,
             atrace, apc, aret>>
vcsVars == <<vsrc, hold_ver, repo, origin, work, files, tagout, ventry, vtrace, vret, vops>>
ioVars == <<iargs, ihow, ileft, iwire, isock, inew, iopen, ibuf, ideliv, iwrote, iexit,
            ipc, ires>>
fnVars == <<phases>>
vars == <<runVars, dlVars, frVars, acqVars, vcsVars, ioVars, fnVars>>

----------------------------------------------------------------------------
\* Bounds of the model.
MaxVol == 3        \* most bytes a child writes to one descriptor
SockCap == 2       \* bytes a socket pair holds before the writer blocks
BuffLen == 1       \* length of `buff` (1024 in run.rs:126), scaled below SockCap
MaxVolPipe == 3    \* most bytes a child of a pipeline writes to its stderr
MaxSources == 3    \* most sources in one batch
MaxProgress == 1   \* most progress callbacks of one transfer
MaxPart == 1       \* most bytes a .part file grows to
max_downloads == 2 \* the pool limit (8 in curl.rs:80), scaled below MaxSources
MaxCalls == 3      \* most calls of fakeroot() on one Makepkg
KeyBufLen == 4     \* length of the key buffer (50 in run.rs:528), scaled
InCap == 1         \* bytes the stdin socket pair holds before write() would block
PipeCap == 1       \* bytes the pipe of a pipeline holds before the writer blocks
MaxPayload == 2    \* most bytes of the `input` payload
MaxVolCmd == 2     \* most bytes a child writes to one descriptor, with a payload
MaxSrc == 3         \* most sources of a recipe
MaxOps == 2         \* most operations called on the VCS source
MaxChunks == 1      \* most chunks a child writes to one stream
MaxPhases == 3      \* most phases run on one Makepkg

NL == 10           \* b'\n'
Colon == 58        \* ':'

\* What a child writes to one descriptor: n bytes, all different, the last one
\* a newline or not.
ProgOf(n, nl) == [i \in 1..n |-> IF i = n /\ nl THEN NL ELSE 119 + i]
Progs(max) == {ProgOf(n, nl) : n \in 0..max, nl \in BOOLEAN}

Min(a, b) == IF a < b THEN a ELSE b

\* All enumerations of a finite set as a sequence without repetition.
Orders(S) == {s \in [1..Cardinality(S) -> S] : \A i, j \in 1..Cardinality(S) : s[i] = s[j] => i = j}

----------------------------------------------------------------------------
\* process_inner: tokens, processes, descriptors.
token_in == "in"
token_out == "out"
token_err == "err"
token_err2 == "err2"
Tokens == {token_out, token_err, token_err2}

Procs == {"p1", "p2"}
Fds == {"out1", "err1", "err2"}
ProcOf(fd) == IF fd = "err2" THEN "p2" ELSE "p1"

Modes == {"read", "spawn", "pipe", "function"}
Policies == {"Inherit", "Null", "Callback", "File"}

\* Arguments the wrappers pass to process_inner ("function": process_function
\* without pkgver and logfile).
HasOutput(m) == m = "read"
HasPipe(m) == m = "pipe"
IgnoreStdout(m) == m \in {"read", "pipe"}

NoEvent == [tok |-> "none", r |-> FALSE, c |-> FALSE]

\* Who writes into a socket, whether its write side is gone, and what epoll
\* reports for it (unix_poll: a closed peer reads as EPOLLIN|EPOLLRDHUP|EPOLLHUP).
Registered == {t \in Tokens : \E fd \in Fds : wire[fd] = t}
WClosed(t) == \A fd \in Fds : wire[fd] = t => fdclosed[fd]
Mask(t) == [tok |-> t, r |-> (sock[t] # <<>> \/ WClosed(t)), c |-> WClosed(t)]
\* (mutant) blocking reads, one stream after the other: stderr is looked at only
\* once stdout has reached end-of-stream.
Ready_sequential ==
    LET rdy == {t \in Registered : woken[t] /\ Mask(t).r}
    IN  IF token_out \in open THEN rdy \cap {token_out} ELSE rdy
Ready == {t \in Registered : woken[t] /\ Mask(t).r}

\* The stdin socket, registered for Interest::WRITABLE: r is is_writable (room
\* in the socket), c is is_write_closed (EPOLLHUP: both directions of the
\* socket were shut down). The peer end r never closes while process_inner
\* runs: self.stdin(OwnedFd::from(r)) stores it in the Command, which keeps it
\* after spawn() and is not reset with stdout and stderr, so a child that
\* closes its stdin or exits is not seen on this socket.
MaskIn ==
    [tok |-> token_in,
     r |-> Len(insock) < InCap,
     c |-> shut > 0]
ReadyIn ==
    IF payload # <<>> /\ pc # "entry" /\ wokenIn /\ (MaskIn.r \/ MaskIn.c)
    THEN {token_in} ELSE {}
MaskOf(t) == IF t = token_in THEN MaskIn ELSE Mask(t)

\* setup_out: the sockets it registers and what it connects the child's stdout
\* and stderr to ("none": not a socket of the supervisor).
setup_out(hasOutput, hasLog, hasPipe, ignoreStdout, policy, is_proc2) ==
    LET cap_out == (hasOutput \/ hasLog) /\ ~hasPipe
        token == IF is_proc2 THEN token_err2 ELSE token_err
    IN  IF policy = "Callback" \/ cap_out
        THEN [reg |-> (IF hasOutput THEN {token_out} ELSE {}) \cup {token},
              stdout |-> IF hasOutput THEN token_out
                         ELSE IF ~ignoreStdout THEN token ELSE "none",
              stderr |-> token]
        ELSE [reg |-> {}, stdout |-> "none", stderr |-> "none"]

\* (mutant) every event is attributed to the first command, whatever its token.
DataOf_first(tok) == "p1"
\* The CommandData an event's token selects (data2 for token_err2, else data1).
DataOf(tok) == IF tok = token_err2 THEN "p2" ELSE "p1"

\* Delivery of a chunk to the policy sink (the match on how_output).
Forward(policy, id, chunk) ==
    IF policy = "Null" THEN fwd ELSE Append(fwd, [id |-> id, chunk |-> chunk])

\* An entry of the trace: a call of the observer, or a spawn.
Tr(c, n) == [c |-> c, id |-> n]

\* callbacks.command_output(data.id, kind, chunk), made for the Callback policy.
Output(policy, n) == IF policy = "Callback" THEN <<Tr("command_output", n)>> ELSE <<>>

\* callbacks.command_new / command_exit, when an observer is installed.
Notify(c, n) == IF callbacks THEN <<Tr(c, n)>> ELSE <<>>

\* (mutant) the observer hears of a command only after it was spawned.
SetupTrace_late(hasPipe, id0) ==
    <<Tr("spawn", id0)>> \o Notify("command_new", id0)
    \o (IF hasPipe
        THEN <<Tr("spawn", id0 + 1)>> \o Notify("command_new", id0 + 1)
        ELSE <<>>)
\* run.rs:204-235 in order: setup_out (command_new) and spawn of the command,
\* then the same for the downstream command of a pipeline.
SetupTrace(hasPipe, id0) ==
    Notify("command_new", id0) \o <<Tr("spawn", id0)>>
    \o (IF hasPipe
        THEN Notify("command_new", id0 + 1) \o <<Tr("spawn", id0 + 1)>>
        ELSE <<>>)

\* (mutant) every chunk is appended to the caller's buffer, whatever its stream.
Capture_any(tok, chunk) == IF HasOutput(mode) THEN outbuf \o chunk ELSE outbuf
\* The caller's buffer after a chunk was read from the socket of `tok`.
Capture(tok, chunk) ==
    IF tok = token_out /\ HasOutput(mode) THEN outbuf \o chunk ELSE outbuf

\* (mutant) the stdin side is shut down after the first write.
FeedDone_early(rest) == TRUE
\* if input.is_empty() { sock.shutdown(Shutdown::Both)?; break }
FeedDone(rest) == rest = <<>>

Statuses == {"ok", "fail"}

\* The value process_inner returns: Ok(status) of a child, or Err(e).
NoResult == [who |-> "none", status |-> "none"]
ErrResult == [who |-> "none", status |-> "err"]

InitRunVars ==
    /\ mode \in Modes
    /\ how \in [Procs -> Policies]
    /\ (~HasPipe(mode) => how["p2"] = "Inherit")
    /\ prog \in [Fds -> Progs(MaxVol)]
    /\ (HasPipe(mode) => prog["out1"] = <<>>)
    /\ (~HasPipe(mode) => prog["err2"] = <<>>)
    /\ written = [fd \in Fds |-> 0]
    /\ fdclosed = [fd \in Fds |-> FALSE]
    /\ cwant = [p \in Procs |-> "none"]
    /\ exited = [p \in Procs |-> "running"]
    /\ wire = [fd \in Fds |-> "none"]
    /\ sock = [t \in Tokens |-> <<>>]
    /\ woken = [t \in Tokens |-> FALSE]
    /\ open = {}
    /\ evq = <<>>
    /\ cur = NoEvent
    /\ pc = "entry"
    /\ outbuf = <<>>
    /\ fwd = <<>>
    /\ ends_with_nl = TRUE
    /\ waited = {}
    /\ result = [who |-> "none", status |-> "none"]
    /\ callbacks = TRUE
    /\ makepkg_id = 0
    /\ ids = [p \in Procs |-> 0]
    /\ trace = <<>>
    /\ spawned = {}
    /\ payload = <<>>
    /\ input = <<>>
    /\ fed = <<>>
    /\ insock = <<>>
    /\ inclosed = [p \in Procs |-> FALSE]
    /\ shut = 0
    /\ wokenIn = FALSE
    /\ pipe = 0

\* The descriptors and the open bits run.rs:204-235 set up for the command (k = 1)
\* and, in a pipeline, for the downstream command (k = 2).
Wiring(k) ==
    LET d1 == setup_out(HasOutput(mode), FALSE, HasPipe(mode), IgnoreStdout(mode),
                        how["p1"], FALSE)
        d2 == IF HasPipe(mode) /\ k = 2
              THEN setup_out(HasOutput(mode), FALSE, HasPipe(mode), IgnoreStdout(mode),
                             how["p2"], TRUE)
              ELSE [reg |-> {}, stdout |-> "none", stderr |-> "none"]
    IN  [open |-> d1.reg \cup d2.reg \cup (IF payload # <<>> THEN {token_in} ELSE {}),
         wire |-> [fd \in Fds |->
                     CASE fd = "out1" -> (IF HasPipe(mode) THEN "pipe" ELSE d1.stdout)
                       [] fd = "err1" -> d1.stderr
                       [] fd = "err2" -> d2.stderr]]

\* run.rs:204-240: both setup_out calls, the stdin/stdout wiring and the spawns.
Setup ==
    /\ pc = "entry"
    /\ open' = Wiring(2).open
    /\ wire' = Wiring(2).wire
    /\ makepkg_id' = makepkg_id + (IF HasPipe(mode) THEN 2 ELSE 1)
    /\ ids' = [p \in Procs |-> IF p = "p1" THEN makepkg_id ELSE IF HasPipe(mode) THEN makepkg_id + 1 ELSE 0]
    /\ trace' = trace \o SetupTrace(HasPipe(mode), makepkg_id)
    /\ spawned' = IF HasPipe(mode) THEN {"p1", "p2"} ELSE {"p1"}
    /\ wokenIn' = (payload # <<>>)
    /\ pc' = "loop"
    /\ UNCHANGED <<acqVars, vcsVars, ioVars, fnVars, frVars, dlVars, mode, how, prog, written, fdclosed, cwant, exited, sock,
                   woken, evq, cur, outbuf, fwd, ends_with_nl, waited, result, callbacks,
                   inclosed, payload, input, fed, insock, shut, pipe>>

\* A `?` of run.rs:204-235 returns the error: setup_out or the spawn of the
\* command (k = 1), or those of the downstream command of a pipeline (k = 2),
\* when the command itself is already running.
SetupFail(k) ==
    /\ pc = "entry"
    /\ k = 2 => HasPipe(mode)
    /\ makepkg_id' = makepkg_id + k
    /\ ids' = [p \in Procs |-> IF p = "p1" THEN makepkg_id ELSE IF k = 2 THEN makepkg_id + 1 ELSE 0]
    /\ trace' = trace \o SubSeq(SetupTrace(HasPipe(mode), makepkg_id), 1,
                                 IF callbacks THEN 2 * k - 1 ELSE k - 1)
    /\ IF k = 2
       THEN /\ open' = Wiring(1).open
            /\ wire' = Wiring(1).wire
            /\ spawned' = {"p1"}
            /\ wokenIn' = (payload # <<>>)
       ELSE UNCHANGED <<open, wire, spawned, wokenIn>>
    /\ result' = ErrResult
    /\ pc' = "done"
    /\ UNCHANGED <<acqVars, vcsVars, ioVars, fnVars, frVars, dlVars, mode, how, prog, written, fdclosed, cwant, exited, sock,
                   woken, evq, cur, outbuf, fwd, ends_with_nl, waited, callbacks,
                   inclosed, payload, input, fed, insock, shut, pipe>>

\* while open != 0 { poll.poll(&mut events, None)?; ... } : poll blocks until a
\* registered socket is ready and reports every ready socket once.
Poll ==
    /\ pc = "loop"
    /\ open # {}
    /\ Ready \cup ReadyIn # {}
    /\ \E ord \in Orders(Ready \cup ReadyIn) : evq' = [i \in 1..Len(ord) |-> MaskOf(ord[i])]
    /\ woken' = [t \in Tokens |-> FALSE]
    /\ wokenIn' = FALSE
    /\ pc' = "events"
    /\ UNCHANGED <<acqVars, vcsVars, ioVars, fnVars, frVars, dlVars, mode, how, prog, written, fdclosed, cwant, exited, wire, sock,
                   open, cur, outbuf, fwd, ends_with_nl, waited, result, callbacks, makepkg_id, ids,
                   trace, spawned, inclosed, payload, input, fed, insock, shut, pipe>>

\* for event in &events: the next event, or back to the loop condition.
NextEvent ==
    /\ pc = "events"
    /\ IF evq = <<>>
       THEN /\ pc' = "loop"
            /\ UNCHANGED <<evq, cur>>
       ELSE /\ cur' = Head(evq)
            /\ evq' = Tail(evq)
            /\ pc' = IF Head(evq).tok = token_in THEN "feed"
                     ELSE IF Head(evq).r THEN "read" ELSE "closed"
    /\ UNCHANGED <<acqVars, vcsVars, ioVars, fnVars, frVars, dlVars, mode, how, prog, written, fdclosed, cwant, exited, wire, sock,
                   woken, open, outbuf, fwd, ends_with_nl, waited, result, callbacks, makepkg_id, ids,
                   trace, spawned, inclosed, feedVars>>

\* The token_in branch, one sock.write(&mut input) at a time: Ok(n) takes n bytes
\* off the payload (and shuts the socket down when none is left), WouldBlock
\* breaks (no write fails with EPIPE, the supervisor holding the peer end); then,
\* out of the loop, is_write_closed clears the bit.
Feed ==
    /\ pc = "feed"
    /\ LET room == InCap - Len(insock)
           n == Min(room, Len(input))
           rest == SubSeq(input, n + 1, Len(input))
           leave == /\ open' = IF cur.c THEN open \ {token_in} ELSE open
                    /\ pc' = "events"
                    /\ UNCHANGED result
       IN  IF cur.r /\ input # <<>>
           THEN IF n = 0
                THEN leave /\ UNCHANGED <<input, fed, insock, shut, wokenIn>>
                ELSE /\ input' = rest
                     /\ fed' = fed \o SubSeq(input, 1, n)
                     /\ insock' = insock \o SubSeq(input, 1, n)
                     /\ IF FeedDone(rest)
                        THEN /\ shut' = shut + 1
                             /\ wokenIn' = TRUE
                             /\ leave
                        ELSE /\ pc' = "feed"
                             /\ UNCHANGED <<shut, wokenIn, open, result>>
           ELSE leave /\ UNCHANGED <<input, fed, insock, shut, wokenIn>>
    /\ UNCHANGED <<acqVars, vcsVars, ioVars, fnVars, frVars, dlVars, mode, how, prog, written, fdclosed, cwant, exited, wire, sock,
                   woken, evq, cur, outbuf, fwd, ends_with_nl, waited, callbacks, makepkg_id, ids,
                   trace, spawned, inclosed, payload, pipe>>

\* One sock.read(&mut buff) of the inner loop: Ok(n) delivers the chunk and loops,
\* Ok(0) and WouldBlock break.
Read ==
    /\ pc = "read"
    /\ LET t == cur.tok
           n == Min(BuffLen, Len(sock[t]))
           chunk == SubSeq(sock[t], 1, n)
       IN  IF n > 0
           THEN /\ sock' = [sock EXCEPT ![t] = SubSeq(sock[t], n + 1, Len(sock[t]))]
                /\ outbuf' = Capture(t, chunk)
                /\ IF t # token_out \/ ~IgnoreStdout(mode)
                   THEN /\ ends_with_nl' = (chunk[n] = NL)
                        /\ fwd' = Forward(how[DataOf(t)], DataOf(t), chunk)
                        /\ trace' = trace \o Output(how[DataOf(t)], ids[DataOf(t)])
                   ELSE UNCHANGED <<ends_with_nl, fwd, trace>>
                /\ pc' = "read"
           ELSE /\ pc' = "closed"
                /\ UNCHANGED <<sock, outbuf, ends_with_nl, fwd, trace>>
    /\ UNCHANGED <<acqVars, vcsVars, ioVars, fnVars, frVars, dlVars, mode, how, prog, written, fdclosed, cwant, exited, wire, woken,
                   open, evq, cur, waited, result, callbacks, makepkg_id, ids, spawned, inclosed,
                   feedVars>>

\* if event.is_read_closed() { open &= !token; synthetic newline for token_err }
Closed ==
    /\ pc = "closed"
    /\ IF cur.c
       THEN /\ open' = open \ {cur.tok}
            /\ IF ~ends_with_nl /\ cur.tok = token_err
               THEN /\ fwd' = Forward(how[DataOf(cur.tok)], DataOf(cur.tok), <<NL>>)
                    /\ trace' = trace \o Output(how[DataOf(cur.tok)], ids[DataOf(cur.tok)])
               ELSE UNCHANGED <<fwd, trace>>
       ELSE UNCHANGED <<open, fwd, trace>>
    /\ pc' = "events"
    /\ UNCHANGED <<acqVars, vcsVars, ioVars, fnVars, frVars, dlVars, mode, how, prog, written, fdclosed, cwant, exited, wire, sock,
                   woken, evq, cur, outbuf, ends_with_nl, waited, result, callbacks, makepkg_id, ids,
                   spawned, inclosed, feedVars>>

\* The loop condition fails: command_exit(data1.id), then on to the waits.
LoopEnd ==
    /\ pc = "loop"
    /\ open = {}
    /\ trace' = trace \o Notify("command_exit", ids["p1"])
    /\ pc' = IF HasPipe(mode) THEN "wait2" ELSE "wait1"
    /\ UNCHANGED <<acqVars, vcsVars, ioVars, fnVars, frVars, dlVars, mode, how, prog, written, fdclosed, cwant, exited, wire, sock,
                   woken, open, evq, cur, outbuf, fwd, ends_with_nl, waited, result, callbacks,
                   makepkg_id, ids, spawned, inclosed, feedVars>>

\* if let Some(child2) { let status = child2.wait()?; command_exit(data2.id);
\* if !status.success() { return Ok(status) } } : wait() blocks until the child
\* has exited.
Wait2 ==
    /\ pc = "wait2"
    /\ exited["p2"] # "running"
    /\ waited' = waited \cup {"p2"}
    /\ trace' = trace \o Notify("command_exit", ids["p2"])
    /\ IF exited["p2"] # "ok"
       THEN /\ result' = [who |-> "p2", status |-> exited["p2"]]
            /\ pc' = "done"
       ELSE /\ pc' = "wait1"
            /\ UNCHANGED result
    /\ UNCHANGED <<acqVars, vcsVars, ioVars, fnVars, frVars, dlVars, mode, how, prog, written, fdclosed, cwant, exited, wire, sock,
                   woken, open, evq, cur, outbuf, fwd, ends_with_nl, callbacks, makepkg_id, ids,
                   spawned, inclosed, feedVars>>

\* let status = child.wait()?; Ok(status)
Wait1 ==
    /\ pc = "wait1"
    /\ exited["p1"] # "running"
    /\ waited' = waited \cup {"p1"}
    /\ result' = [who |-> "p1", status |-> exited["p1"]]
    /\ pc' = "done"
    /\ UNCHANGED <<acqVars, vcsVars, ioVars, fnVars, frVars, dlVars, mode, how, prog, written, fdclosed, cwant, exited, wire, sock,
                   woken, open, evq, cur, outbuf, fwd, ends_with_nl, callbacks, makepkg_id, ids, trace,
                   spawned, inclosed, feedVars>>

\* A system call of the loop or of the waits fails and its `?` returns the error:
\* poll, a read, a write to a sink (the caller's buffer, the terminal, the file),
\* wait.
IoFail ==
    /\ pc \in {"loop", "read", "closed", "wait2", "wait1"}
    /\ pc = "loop" => open # {}
    /\ pc = "closed" => (cur.c /\ ~ends_with_nl /\ cur.tok = token_err
                         /\ how[DataOf(cur.tok)] \in {"Inherit", "File"})
    /\ result' = ErrResult
    /\ pc' = "done"
    /\ UNCHANGED <<acqVars, vcsVars, ioVars, fnVars, frVars, dlVars, mode, how, prog, written, fdclosed, cwant, exited, wire, sock,
                   woken, open, evq, cur, outbuf, fwd, ends_with_nl, waited, callbacks, makepkg_id, ids,
                   trace, spawned, inclosed, feedVars>>

\* ---- the child processes (environment) ----
Spawned(p) == p \in spawned /\ exited[p] = "running"

\* The read end of the pipe is held by the downstream child until it closes its
\* stdin, and by the supervisor: command.stdin(child.stdout.take().unwrap())
\* stores it in pipe_into, which outlives the call.
PipeReaders ==
    (IF "p2" \in spawned /\ ~inclosed["p2"] THEN {"p2"} ELSE {})
    \cup (IF pc # "entry" THEN {"parent"} ELSE {})

\* The socket (or other file) a write() on fd has room for one more byte.
HasRoom(fd) ==
    CASE wire[fd] = "none" -> TRUE
      [] wire[fd] = "pipe" -> pipe < PipeCap
      [] OTHER -> Len(sock[wire[fd]]) < SockCap

\* The effect of a completed write() of the next byte of fd.
DoWrite(fd) ==
    /\ LET t == wire[fd]
           b == prog[fd][written[fd] + 1]
       IN  CASE t = "none" -> UNCHANGED <<sock, woken, pipe>>
             [] t = "pipe" -> pipe' = pipe + 1 /\ UNCHANGED <<sock, woken>>
             [] OTHER -> /\ sock' = [sock EXCEPT ![t] = Append(sock[t], b)]
                         /\ woken' = [woken EXCEPT ![t] = TRUE]
                         /\ UNCHANGED pipe
    /\ written' = [written EXCEPT ![fd] = written[fd] + 1]

\* The sockets whose write side is gone once the descriptors in `gone` are closed.
WakeClosed(gone) ==
    [t \in Tokens |->
       IF (\E fd \in Fds : wire[fd] = t /\ ~fdclosed[fd] /\ fd \in gone)
          /\ (\A g \in Fds : wire[g] = t => (fdclosed[g] \/ g \in gone))
       THEN TRUE ELSE woken[t]]

\* A process dies: every descriptor it holds is closed, stdin included.
Dies(p, st) ==
    /\ exited' = [exited EXCEPT ![p] = st]
    /\ fdclosed' = [fd \in Fds |-> fdclosed[fd] \/ ProcOf(fd) = p]
    /\ woken' = WakeClosed({fd \in Fds : ProcOf(fd) = p})
    /\ cwant' = [cwant EXCEPT ![p] = "none"]
    /\ inclosed' = [inclosed EXCEPT ![p] = TRUE]
    /\ UNCHANGED <<insock, wokenIn>>

\* A child calls write() on one of its descriptors: the call completes when
\* there is room and blocks the child inside it when the socket or pipe is full;
\* on a pipe that nobody holds the read end of, the child dies of SIGPIPE.
ChildWrite(fd) ==
    /\ Spawned(ProcOf(fd))
    /\ cwant[ProcOf(fd)] = "none"
    /\ ~fdclosed[fd]
    /\ written[fd] < Len(prog[fd])
    /\ IF wire[fd] = "pipe" /\ PipeReaders = {}
       THEN Dies(ProcOf(fd), "fail") /\ UNCHANGED <<sock, written, pipe>>
       ELSE /\ IF HasRoom(fd)
               THEN DoWrite(fd) /\ UNCHANGED cwant
               ELSE /\ cwant' = [cwant EXCEPT ![ProcOf(fd)] = fd]
                    /\ UNCHANGED <<sock, woken, written, pipe>>
            /\ UNCHANGED <<fdclosed, exited, inclosed, insock, wokenIn>>
    /\ UNCHANGED <<acqVars, vcsVars, ioVars, fnVars, frVars, dlVars, mode, how, prog, wire, open, evq, cur, pc, outbuf,
                   fwd, ends_with_nl, waited, result, callbacks, makepkg_id, ids, trace, spawned,
                   payload, input, fed, shut>>

\* A blocked write() completes once the reader has made room; on a pipe whose
\* last read end was closed in the meantime, the child dies of SIGPIPE.
ChildUnblock(fd) ==
    /\ cwant[ProcOf(fd)] = fd
    /\ IF wire[fd] = "pipe" /\ PipeReaders = {}
       THEN Dies(ProcOf(fd), "fail") /\ UNCHANGED <<sock, written, pipe>>
       ELSE /\ HasRoom(fd)
            /\ DoWrite(fd)
            /\ cwant' = [cwant EXCEPT ![ProcOf(fd)] = "none"]
            /\ UNCHANGED <<fdclosed, exited, inclosed, insock, wokenIn>>
    /\ UNCHANGED <<acqVars, vcsVars, ioVars, fnVars, frVars, dlVars, mode, how, prog, wire, open, evq, cur, pc,
                   outbuf, fwd, ends_with_nl, waited, result, callbacks, makepkg_id, ids, trace,
                   spawned, payload, input, fed, shut>>

\* A child closes a descriptor it has finished writing to.
ChildClose(fd) ==
    /\ Spawned(ProcOf(fd))
    /\ cwant[ProcOf(fd)] = "none"
    /\ ~fdclosed[fd]
    /\ written[fd] = Len(prog[fd])
    /\ fdclosed' = [fdclosed EXCEPT ![fd] = TRUE]
    /\ woken' = [t \in Tokens |->
                   IF wire[fd] = t /\ (\A g \in Fds : wire[g] = t => fdclosed'[g])
                   THEN TRUE ELSE woken[t]]
    /\ UNCHANGED <<acqVars, vcsVars, ioVars, fnVars, frVars, dlVars, mode, how, prog, written, cwant, exited, wire, sock, open, evq,
                   cur, pc, outbuf, fwd, ends_with_nl, waited, result, callbacks, makepkg_id, ids,
                   trace, spawned, inclosed, feedVars>>

\* A child exits, with any status, after it closed its descriptors.
ChildExit(p) ==
    /\ Spawned(p)
    /\ cwant[p] = "none"
    /\ \A fd \in Fds : ProcOf(fd) = p => fdclosed[fd]
    /\ \E st \in Statuses : Dies(p, st)
    /\ UNCHANGED <<acqVars, vcsVars, ioVars, fnVars, frVars, dlVars, mode, how, prog, written, wire, sock, open,
                   evq, cur, pc, outbuf, fwd, ends_with_nl, waited, result, callbacks, makepkg_id,
                   ids, trace, spawned, payload, input, fed, shut, pipe>>

\* The child reads a byte of its stdin: from the stdin socket (the command), which
\* makes room for the supervisor, or from the pipe (the downstream command).
ChildReadIn(p) ==
    /\ Spawned(p)
    /\ ~inclosed[p]
    /\ IF p = "p1"
       THEN /\ insock # <<>>
            /\ insock' = Tail(insock)
            /\ wokenIn' = TRUE
            /\ UNCHANGED pipe
       ELSE /\ pipe > 0
            /\ pipe' = pipe - 1
            /\ UNCHANGED <<insock, wokenIn>>
    /\ UNCHANGED <<acqVars, vcsVars, ioVars, fnVars, frVars, dlVars, mode, how, prog, written, fdclosed, cwant, exited, wire, sock,
                   woken, open, evq, cur, pc, outbuf, fwd, ends_with_nl, waited, result,
                   callbacks, makepkg_id, ids, trace, spawned, inclosed, payload, input, fed, shut>>

\* The command closes its stdin, whether it has read all of it or not.
ChildCloseIn(p) ==
    /\ Spawned(p)
    /\ p = "p1"
    /\ payload # <<>>
    /\ ~inclosed[p]
    /\ inclosed' = [inclosed EXCEPT ![p] = TRUE]
    /\ UNCHANGED <<insock, wokenIn>>
    /\ UNCHANGED <<acqVars, vcsVars, ioVars, fnVars, frVars, dlVars, mode, how, prog, written, fdclosed, cwant, exited, wire, sock,
                   woken, open, evq, cur, pc, outbuf, fwd, ends_with_nl, waited, result,
                   callbacks, makepkg_id, ids, trace, spawned, payload, input, fed, shut, pipe>>

\* A child is killed, at any point, by a signal.
ChildKill(p) ==
    /\ Spawned(p)
    /\ pc # "done"
    /\ Dies(p, "fail")
    /\ UNCHANGED <<acqVars, vcsVars, ioVars, fnVars, frVars, dlVars, mode, how, prog, written, wire, sock, open,
                   evq, cur, pc, outbuf, fwd, ends_with_nl, waited, result, callbacks, makepkg_id,
                   ids, trace, spawned, payload, input, fed, shut, pipe>>

----------------------------------------------------------------------------
\* download_curl_sources: sources, handles, events, files.
Names == {"a", "b"}
Codes == {0, 200, 404}

Ok == [kind |-> "ok", n |-> 0, code |-> 0]
Err(kind, n, code) == [kind |-> kind, n |-> n, code |-> code]
NoRet == [kind |-> "none", n |-> 0, code |-> 0]

Ev(e, n, code) == [e |-> e, n |-> n, code |-> code]

\* Handle { download, file, temp_path, final_path, err } with libcurl's view of
\* the transfer: xfer is "active", "paused", "finished" (its completion message
\* is queued) or "handled" (handle_messages has seen the message).
NewHandle(n, name) ==
    [n |-> n, name |-> name, xfer |-> "active", err |-> Ok, res |-> "none", code |-> 0,
     prog |-> 0, renamed |-> FALSE]

NoFile == [exists |-> FALSE, len |-> 0]

----------------------------------------------------------------------------
\* download_sources: get_downloads, the bulk engine, download_file, download_vcs.

\* Source::protocol(): the scheme of the url ("none" for a url without "://").
Protos == {"none", "http", "https", "scp", "git", "foo"}
\* BTreeMap<&DownloadAgent, _> iterates its keys in the derived order of
\* DownloadAgent, the protocol first: the protocols in ascending string order.
ProtoOrder == <<"foo", "git", "http", "https", "scp">>

Curl == <<"usr", "bin", "curl">>
Scp == <<"usr", "bin", "scp">>
\* The DLAGENTS of a configuration: one agent per protocol, with its command
\* as the components of its path.
AgentConfigs ==
    {<<[protocol |-> "http", command |-> Curl],
       [protocol |-> "https", command |-> Curl],
       [protocol |-> "scp", command |-> Scp]>>,
     <<[protocol |-> "https", command |-> Curl],
       [protocol |-> "scp", command |-> Scp]>>}
VcsConfigs == {{}, {"git"}}

\* command.rsplit('/').next().unwrap()
Basename(command) == command[Len(command)]

\* (mutant) is_remote is not looked at: a missing local source is handed on.
is_download_any(s) == TRUE
\* Source::is_remote(): the url contains "://".
is_download(s) == s.proto # "none"

\* get_vcs_tool: the configured VCS client of the source's protocol, if any.
get_vcs_tool(s) ==
    IF s.proto # "none" /\ s.proto \in vcs_agents THEN s.proto ELSE "none"

\* get_download_tool: the first configured agent of the source's protocol
\* (its position in dl_agents), 0 if there is none.
get_download_tool(s) ==
    IF s.proto # "none" /\ \E a \in 1..Len(dl_agents) : dl_agents[a].protocol = s.proto
    THEN CHOOSE a \in 1..Len(dl_agents) :
            /\ dl_agents[a].protocol = s.proto
            /\ \A b \in 1..(a - 1) : dl_agents[b].protocol # s.proto
    ELSE 0

\* What get_downloads has built up: the two maps (protocol -> sources, by
\* position in all_sources), the FoundSource events, and the error if any.
NoDownloads ==
    [dl |-> [p \in Protos |-> <<>>], vcs |-> [p \in Protos |-> <<>>],
     found |-> <<>>, err |-> Ok]

\* The body of the loop of get_downloads for source i.
Classify(acc, i) ==
    LET s == all_sources[i]
    IN  IF get_vcs_tool(s) # "none"
        THEN [acc EXCEPT !.vcs[s.proto] = Append(@, i)]
        ELSE IF s.exists
        THEN [acc EXCEPT !.found = Append(@, i)]
        ELSE IF ~is_download(s)
        THEN [acc EXCEPT !.err = Err("SourceMissing", i, 0)]
        ELSE IF get_download_tool(s) # 0
        THEN [acc EXCEPT !.dl[s.proto] = Append(@, i)]
        ELSE [acc EXCEPT !.err = Err("UnknownProtocol", i, 0)]

\* (mutant) a source that cannot be classified is left out and the rest goes on.
RECURSIVE get_downloads_lax(_, _)
get_downloads_lax(acc, i) ==
    IF i > Len(all_sources) THEN [acc EXCEPT !.err = Ok]
    ELSE get_downloads_lax(Classify(acc, i), i + 1)
\* get_downloads over the sources from i on; an error returns at once.
RECURSIVE get_downloads(_, _)
get_downloads(acc, i) ==
    IF i > Len(all_sources) \/ acc.err # Ok THEN acc
    ELSE get_downloads(Classify(acc, i), i + 1)

\* The keys of a map in iteration order, and its values in that order, flattened.
Keys(m) == SelectSeq(ProtoOrder, LAMBDA p : m[p] # <<>>)
RECURSIVE FlatMap(_, _)
FlatMap(m, ks) == IF ks = <<>> THEN <<>> ELSE m[Head(ks)] \o FlatMap(m, Tail(ks))

AgentOf(p) == dl_agents[CHOOSE a \in 1..Len(dl_agents) : dl_agents[a].protocol = p]

\* downloads.keys().copied().find(|a| a.command.rsplit('/').next().unwrap() == "curl"):
\* the first such key only.
CurlKeys(m) ==
    LET ks == SelectSeq(Keys(m), LAMBDA p : Basename(AgentOf(p).command) = "curl")
    IN  IF ks = <<>> THEN <<>> ELSE <<Head(ks)>>

\* (mutant) the exit status of the agent command is not looked at.
Success_any(st) == TRUE
\* ExitStatus::success(), as cmd_context tests it.
Success(st) == st = "ok"

Step(op, i, via) == [op |-> op, i |-> i, via |-> via]

InitAcqIdle ==
    /\ all_sources = <<>>
    /\ dl_agents = <<>>
    /\ vcs_agents = {}
    /\ downloads = NoDownloads.dl
    /\ vcs_downloads = NoDownloads.vcs
    /\ found = <<>>
    /\ queue = <<>>
    /\ atrace = <<>>
    /\ apc = "idle"
    /\ aret = NoRet

\* (mutant) an error is not propagated and the loop goes on.
Returns_never(res) == FALSE
\* The `?` operator: an Err is returned to the caller at once.
Returns(res) == res.kind # "ok"

\* The sources of a list in the order Vec::pop takes them.
RECURSIVE Reverse(_)
Reverse(s) == IF s = <<>> THEN <<>> ELSE Append(Reverse(Tail(s)), Head(s))

\* The work left for download_file or download_vcs: the sources of a map, key
\* by key, each with its key.
RECURSIVE WorkOf(_, _)
WorkOf(m, ks) ==
    IF ks = <<>> THEN <<>>
    ELSE [k \in 1..Len(m[Head(ks)]) |-> [i |-> m[Head(ks)][k], p |-> Head(ks)]]
         \o WorkOf(m, Tail(ks))

\* mod.rs:34: get_downloads, the whole call; its error is returned.
GetDownloads ==
    /\ apc = "entry"
    /\ LET r == get_downloads(NoDownloads, 1)
       IN  /\ found' = r.found
           /\ IF Returns(r.err)
              THEN /\ aret' = r.err
                   /\ apc' = "done"
                   /\ UNCHANGED <<downloads, vcs_downloads>>
              ELSE /\ downloads' = r.dl
                   /\ vcs_downloads' = r.vcs
                   /\ apc' = "curl"
                   /\ UNCHANGED aret
    /\ UNCHANGED <<all_sources, dl_agents, vcs_agents, queue, atrace>>
    /\ UNCHANGED <<frVars, runVars, dlVars, vcsVars, ioVars, fnVars>>

\* mod.rs:36-45: the first key whose command is curl is taken out of the map
\* and its sources go to download_curl_sources, which transfers them (popping
\* from the end) or fails on one of them after it launched some more.
Bulk ==
    /\ apc = "curl"
    /\ LET ks == CurlKeys(downloads)
           list == Reverse(FlatMap(downloads, ks))
           rest == [p \in Protos |->
                      IF \E k \in 1..Len(ks) : ks[k] = p THEN <<>> ELSE downloads[p]]
           steps(m) == [k \in 1..m |-> Step("bulk", list[k], "curl")]
       IN  /\ downloads' = rest
           /\ \E f \in 0..Len(list), m \in 0..Len(list) :
                /\ IF f = 0 THEN m = Len(list) ELSE m >= f
                /\ LET res == IF f = 0 THEN Ok ELSE Err("bulk", list[f], 0)
                   IN  /\ atrace' = atrace \o steps(m) \o
                                    (IF f = 0 THEN <<>>
                                     ELSE <<Step("bulk_fail", list[f], "curl")>>)
                       /\ IF Returns(res)
                          THEN /\ aret' = res
                               /\ apc' = "done"
                               /\ UNCHANGED queue
                          ELSE /\ queue' = WorkOf(rest, Keys(rest))
                               /\ apc' = "file"
                               /\ UNCHANGED aret
    /\ UNCHANGED <<all_sources, dl_agents, vcs_agents, vcs_downloads, found>>
    /\ UNCHANGED <<frVars, runVars, dlVars, vcsVars, ioVars, fnVars>>

\* file.rs:21-46, one source: event(Downloading)?, the agent command through
\* process_spawn (it may fail to start, or exit with any status), and the
\* rename of the .part file to the final name.
DownloadFile ==
    /\ apc = "file"
    /\ queue # <<>>
    /\ LET w == Head(queue)
           run == Step("run", w.i, w.p)
       IN  \E out \in {"observer", "exec", "exit"}, st \in Statuses, renameOk \in BOOLEAN :
             LET res == CASE out = "observer" -> Err("observer", w.i, 0)
                          [] out = "exec" -> Err("Command", w.i, 0)
                          [] ~Success(st) -> Err("Command", w.i, 0)
                          [] ~renameOk -> Err("rename", w.i, 0)
                          [] OTHER -> Ok
                 new == CASE out = "observer" -> <<>>
                          [] out = "exec" -> <<run, Step("exec_fail", w.i, w.p)>>
                          [] ~Success(st) -> <<run, Step("exit_fail", w.i, w.p)>>
                          [] OTHER -> <<run,
                                        Step(IF st = "ok" THEN "exit_ok" ELSE "exit_fail",
                                             w.i, w.p),
                                        Step(IF renameOk THEN "rename" ELSE "rename_fail",
                                             w.i, w.p)>>
             IN  /\ (out # "exit" => (st = "ok" /\ renameOk))
                 /\ atrace' = atrace \o new
                 /\ IF Returns(res)
                    THEN /\ aret' = res
                         /\ apc' = "done"
                         /\ UNCHANGED queue
                    ELSE /\ queue' = Tail(queue)
                         /\ UNCHANGED <<aret, apc>>
    /\ UNCHANGED <<all_sources, dl_agents, vcs_agents, downloads, vcs_downloads, found>>
    /\ UNCHANGED <<frVars, runVars, dlVars, vcsVars, ioVars, fnVars>>

\* file.rs:48, mod.rs:48: download_file returns Ok and download_vcs starts.
DownloadFileDone ==
    /\ apc = "file"
    /\ queue = <<>>
    /\ queue' = WorkOf(vcs_downloads, Keys(vcs_downloads))
    /\ apc' = "vcs"
    /\ UNCHANGED <<all_sources, dl_agents, vcs_agents, downloads, vcs_downloads, found,
                   atrace, aret>>
    /\ UNCHANGED <<frVars, runVars, dlVars, vcsVars, ioVars, fnVars>>

\* vcs.rs:69-80, one source: the backend's download function, which succeeds
\* or fails.
DownloadVcs ==
    /\ apc = "vcs"
    /\ queue # <<>>
    /\ LET w == Head(queue)
       IN  \E ok \in BOOLEAN :
             LET res == IF ok THEN Ok ELSE Err("vcs", w.i, 0)
             IN  /\ atrace' = atrace \o <<Step("vcs", w.i, w.p)>> \o
                              (IF ok THEN <<>> ELSE <<Step("vcs_fail", w.i, w.p)>>)
                 /\ IF Returns(res)
                    THEN /\ aret' = res
                         /\ apc' = "done"
                         /\ UNCHANGED queue
                    ELSE /\ queue' = Tail(queue)
                         /\ UNCHANGED <<aret, apc>>
    /\ UNCHANGED <<all_sources, dl_agents, vcs_agents, downloads, vcs_downloads, found>>
    /\ UNCHANGED <<frVars, runVars, dlVars, vcsVars, ioVars, fnVars>>

\* vcs.rs:81, mod.rs:50: Ok(()).
DownloadVcsDone ==
    /\ apc = "vcs"
    /\ queue = <<>>
    /\ aret' = Ok
    /\ apc' = "done"
    /\ UNCHANGED <<all_sources, dl_agents, vcs_agents, downloads, vcs_downloads, found,
                   queue, atrace>>
    /\ UNCHANGED <<frVars, runVars, dlVars, vcsVars, ioVars, fnVars>>

NextAcq ==
    \/ GetDownloads
    \/ Bulk
    \/ DownloadFile
    \/ DownloadFileDone
    \/ DownloadVcs
    \/ DownloadVcsDone

----------------------------------------------------------------------------
\* The VCS backends: download_<vcs> (fetch), extract_<vcs> (materialize) and
\* checksum_vcs, for one source.

\* VCSKind
VCSKind == {"git", "svn", "hg", "fossil", "bzr"}
\* Fragment: its key and value; NoFragment is source.fragment == None.
FragmentKeys == {"revision", "branch", "commit", "tag"}
RefNames == {"v1", "head"}
NoFragment == [key |-> "none", value |-> ""]
Fragments ==
    {NoFragment} \cup {[key |-> k, value |-> v] : k \in FragmentKeys, v \in RefNames}

\* A url, as its pieces: a trailing ".git" is a piece of its own.
Urls == {<<"u1">>, <<"u1", ".git">>, <<"u2">>}

\* str::trim_end_matches(pat): every trailing repetition of pat is removed.
RECURSIVE trim_end_matches(_, _)
trim_end_matches(s, pat) ==
    IF s # <<>> /\ s[Len(s)] = pat
    THEN trim_end_matches(SubSeq(s, 1, Len(s) - 1), pat)
    ELSE s

\* What a command comes to: it exits with success, exits with a failure, or
\* cannot be started.
Outs == {"ok", "fail", "exec"}

\* A git ref as extract_git builds it: "origin/HEAD", format!("origin/{}", r), r.
Ref(prefix, name) == [prefix |-> prefix, name |-> name]

VOk == [kind |-> "ok", vcs |-> "none", frag |-> NoFragment, a |-> <<>>, b |-> <<>>]
VNone == [kind |-> "none", vcs |-> "none", frag |-> NoFragment, a |-> <<>>, b |-> <<>>]
\* DownloadError::Command(source, ..), an observer error, an I/O error
VErr(kind) == [kind |-> kind, vcs |-> "none", frag |-> NoFragment, a |-> <<>>, b |-> <<>>]
\* DownloadError::UnsupportedFragment(source, vcs, fragment)
UnsupportedFragment(vcs, f) ==
    [kind |-> "UnsupportedFragment", vcs |-> vcs, frag |-> f, a |-> <<>>, b |-> <<>>]
\* DownloadError::RemotesDiffer(source, remote)
RemotesDiffer(remote) ==
    [kind |-> "RemotesDiffer", vcs |-> "none", frag |-> NoFragment, a |-> remote, b |-> <<>>]
\* DownloadError::RefsDiffer(source, gitref, tagname)
RefsDiffer(gitref, tagname) ==
    [kind |-> "RefsDiffer", vcs |-> "none", frag |-> NoFragment,
     a |-> <<gitref>>, b |-> <<tagname>>]
\* DownloadError::RefNotFound(source, fragment)
RefNotFound(f) ==
    [kind |-> "RefNotFound", vcs |-> "none", frag |-> f, a |-> <<>>, b |-> <<>>]
\* Ok(hash) of checksum_<vcs>: the hash of the export at a revision, or "SKIP".
HashOf(rev) == [kind |-> "hash", vcs |-> "none", frag |-> NoFragment, a |-> <<rev>>, b |-> <<>>]
Skip == [kind |-> "SKIP", vcs |-> "none", frag |-> NoFragment, a |-> <<>>, b |-> <<>>]

\* A step of a backend function: an event to the observer or a command it ran.
\* A command carries the ref it was given where the model follows it.
E(name) == [t |-> "event", name |-> name, ref |-> ""]
C(name) == [t |-> "cmd", name |-> name, ref |-> ""]
CRef(name, ref) == [t |-> "cmd", name |-> name, ref |-> ref]

\* (mutant) every fragment falls through to the default arm.
Arms_lax(vcs) == FragmentKeys
\* The fragment kinds the `match &source.fragment` of a backend has an arm for
\* (extract_git, download_svn, extract_hg, extract_fossil, extract_bzr).
Arms(vcs) ==
    CASE vcs = "git" -> {"commit", "tag", "branch"}
      [] vcs = "svn" -> {"revision"}
      [] vcs = "hg" -> {"branch", "revision", "tag"}
      [] vcs = "fossil" -> {"branch", "commit", "tag"}
      [] vcs = "bzr" -> {"revision"}
Unsupported(vcs) == vsrc.fragment.key \notin Arms(vcs) \cup {"none"}

\* What a backend function leaves behind: its steps, its result, and the
\* local copy (srcdest) and the work tree (srcdir) after it.
R(tr, res) ==
    [tr |-> tr, ret |-> res, repo |-> repo, origin |-> origin, work |-> work, files |-> files]

\* (mutant) hold_ver is not looked at.
Update_always(hold) == TRUE
\* !options.hold_ver
Update(hold) == ~hold

\* The local copy is there: the download path exists and, for git, holds the
\* objects directory.
Cloned(vcs) == IF vcs = "git" THEN repo = "full" ELSE repo # "none"

\* git.rs:14-73
download_git(o) ==
    IF ~Cloned("git")
    THEN LET tr == <<E("DownloadingVCS"), C("clone")>>
         IN  IF o[1] = "ok"
             THEN [R(tr, VOk) EXCEPT !.repo = "full", !.origin = vsrc.url]
             ELSE R(tr, VErr("Command"))
    ELSE IF Update(hold_ver)
    THEN IF o[1] # "ok" THEN R(<<C("remote")>>, VErr("Command"))
         ELSE IF trim_end_matches(origin, ".git") # trim_end_matches(vsrc.url, ".git")
         THEN R(<<C("remote")>>, RemotesDiffer(origin))
         ELSE R(<<C("remote"), E("UpdatingVCS"), C("update")>>,
                IF o[2] = "ok" THEN VOk ELSE VErr("Command"))
    ELSE R(<<>>, VOk)

\* mercurial.rs:15-52
download_hg(o) ==
    IF ~Cloned("hg")
    THEN LET tr == <<E("DownloadingVCS"), C("clone")>>
         IN  IF o[1] = "ok"
             THEN [R(tr, VOk) EXCEPT !.repo = "full", !.origin = vsrc.url]
             ELSE R(tr, VErr("Command"))
    ELSE IF Update(hold_ver)
    THEN R(<<E("UpdatingVCS"), C("update")>>, IF o[1] = "ok" THEN VOk ELSE VErr("Command"))
    ELSE R(<<>>, VOk)

\* svn.rs:16-76
download_svn(o) ==
    LET svnref == IF vsrc.fragment.key = "revision" THEN vsrc.fragment.value ELSE "HEAD"
    IN  IF Unsupported("svn")
        THEN R(<<>>, UnsupportedFragment("svn", vsrc.fragment))
        ELSE IF ~Cloned("svn")
        THEN LET tr == <<E("DownloadingVCS"), CRef("clone", svnref)>>
             IN  IF o[1] = "ok"
                 THEN [R(tr, VOk) EXCEPT !.repo = "full", !.origin = vsrc.url]
                 ELSE R(tr, VErr("Command"))
        ELSE IF Update(hold_ver)
        THEN R(<<E("UpdatingVCS"), CRef("update", svnref)>>,
               IF o[1] = "ok" THEN VOk ELSE VErr("Command"))
        ELSE R(<<>>, VOk)

\* fossil.rs:14-57; the observer may fail the event (o[3]).
download_fossil(o) ==
    IF ~Cloned("fossil")
    THEN IF o[3] # "ok" THEN R(<<E("DownloadingVCS")>>, VErr("observer"))
         ELSE LET tr == <<E("DownloadingVCS"), C("clone")>>
              IN  IF o[1] = "ok"
                  THEN [R(tr, VOk) EXCEPT !.repo = "full", !.origin = vsrc.url]
                  ELSE R(tr, VErr("Command"))
    ELSE IF Update(hold_ver)
    THEN IF o[3] # "ok" THEN R(<<E("UpdatingVCS")>>, VErr("observer"))
         ELSE IF o[1] # "ok" THEN R(<<E("UpdatingVCS"), C("remote")>>, VErr("Command"))
         ELSE IF origin # vsrc.url
         THEN R(<<E("UpdatingVCS"), C("remote")>>, RemotesDiffer(origin))
         ELSE R(<<E("UpdatingVCS"), C("remote"), C("update")>>,
                IF o[2] = "ok" THEN VOk ELSE VErr("Command"))
    ELSE R(<<>>, VOk)

\* bzr.rs:15-53
download_bzr(o) ==
    IF ~Cloned("bzr")
    THEN LET tr == <<E("DownloadingVCS"), C("clone")>>
         IN  IF o[1] = "ok"
             THEN [R(tr, VOk) EXCEPT !.repo = "full", !.origin = vsrc.url]
             ELSE R(tr, VErr("Command"))
    ELSE IF Update(hold_ver)
    THEN R(<<E("UpdatingVCS"), C("update")>>, IF o[1] = "ok" THEN VOk ELSE VErr("Command"))
    ELSE R(<<>>, VOk)

\* vcs.rs:71-78
download_vcs(o) ==
    CASE vsrc.vcs = "git" -> download_git(o)
      [] vsrc.vcs = "svn" -> download_svn(o)
      [] vsrc.vcs = "hg" -> download_hg(o)
      [] vsrc.vcs = "fossil" -> download_fossil(o)
      [] vsrc.vcs = "bzr" -> download_bzr(o)

NoFiles == Ref("", "")
\* What a fresh clone or open checks out: the default branch.
DefaultFiles == Ref("origin/", "HEAD")

\* git.rs:108-120: the ref of the fragment, or the error.
GitRef(f) ==
    CASE f.key \in {"commit", "tag"} -> Ref("", f.value)
      [] f.key = "branch" -> Ref("origin/", f.value)
      [] f.key = "none" -> Ref("origin/", "HEAD")
      [] OTHER -> Ref("", "")

\* git.rs:75-163. The work tree is fetched or cloned first (the clone checks
\* out the default branch), then the fragment is looked at, a tag is compared
\* with the name of the tag object, and the ref is checked out.
extract_git(o) ==
    LET updating == work
        first == <<E("ExtractingVCS"), IF work THEN C("wfetch") ELSE C("wclone")>>
        gitref == GitRef(vsrc.fragment)
        got == [R(first, VOk) EXCEPT !.work = TRUE,
                                     !.files = IF work THEN files ELSE DefaultFiles]
        checkout(tr) ==
            IF gitref # Ref("origin/", "head") \/ updating
            THEN IF o[3] = "ok"
                 THEN [got EXCEPT !.tr = tr \o <<C("checkout")>>, !.files = gitref]
                 ELSE [got EXCEPT !.tr = tr \o <<C("checkout")>>, !.ret = VErr("Command")]
            ELSE [got EXCEPT !.tr = tr]
    IN  IF o[1] # "ok" THEN R(first, VErr("Command"))
        ELSE IF Unsupported("git")
        THEN [got EXCEPT !.ret = UnsupportedFragment("git", vsrc.fragment)]
        ELSE IF vsrc.fragment.key = "tag"
        THEN LET tr == first \o <<C("tag")>>
             IN  IF o[2] # "ok" THEN [got EXCEPT !.tr = tr, !.ret = VErr("Command")]
                 ELSE IF tagout = ""
                 THEN [got EXCEPT !.tr = tr, !.ret = RefNotFound(vsrc.fragment)]
                 ELSE IF Ref("", tagout) # gitref
                 THEN [got EXCEPT !.tr = tr, !.ret = RefsDiffer(gitref, tagout)]
                 ELSE checkout(tr)
        ELSE checkout(first)

\* mercurial.rs:54-123
extract_hg(o) ==
    LET first == <<E("ExtractingVCS"), C("identify")>>
        hgref == IF vsrc.fragment.key # "none"
                 THEN vsrc.fragment.value
                 ELSE IF o[1] = "ok" THEN "@" ELSE "default"
    IN  IF o[1] = "exec" THEN R(first, VErr("Command"))
        ELSE IF Unsupported("hg")
        THEN R(first, UnsupportedFragment("hg", vsrc.fragment))
        ELSE IF work
        THEN IF o[2] # "ok" THEN R(first \o <<C("wpull")>>, VErr("Command"))
             ELSE IF o[3] # "ok"
             THEN R(first \o <<C("wpull"), C("checkout")>>, VErr("Command"))
             ELSE [R(first \o <<C("wpull"), C("checkout")>>, VOk) EXCEPT
                      !.files = Ref("", hgref)]
        ELSE IF o[2] # "ok" THEN R(first \o <<C("wclone")>>, VErr("Command"))
        ELSE [R(first \o <<C("wclone")>>, VOk) EXCEPT !.work = TRUE, !.files = Ref("", hgref)]

\* fossil.rs:59-137; o[3] is the observer's answer to the event and o[4] what
\* is found in an existing work tree: "ok" a checkout of this repository,
\* "fail" a checkout of another one, "exec" no checkout (.fslckout) at all.
extract_fossil(o) ==
    LET first == <<E("ExtractingVCS")>>
        fref == IF vsrc.fragment.key # "none" THEN vsrc.fragment.value ELSE "tip"
        rest(got) ==
            IF Unsupported("fossil")
            THEN [got EXCEPT !.ret = UnsupportedFragment("fossil", vsrc.fragment)]
            ELSE IF o[2] # "ok"
            THEN [got EXCEPT !.tr = @ \o <<C("checkout")>>, !.ret = VErr("Command")]
            ELSE [got EXCEPT !.tr = @ \o <<C("checkout")>>, !.files = Ref("", fref)]
    IN  IF o[3] # "ok" THEN R(first, VErr("observer"))
        ELSE IF work
        THEN IF o[4] = "exec" THEN R(first, VErr("NotCheckedOut"))
             ELSE IF o[1] # "ok" THEN R(first \o <<C("info")>>, VErr("Command"))
             ELSE IF o[4] = "fail" THEN R(first \o <<C("info")>>, RemotesDiffer(<<"other">>))
             ELSE rest(R(first \o <<C("info")>>, VOk))
        ELSE IF o[1] # "ok" THEN R(first \o <<C("wclone")>>, VErr("Command"))
        ELSE rest([R(first \o <<C("wclone")>>, VOk) EXCEPT
                      !.work = TRUE, !.files = DefaultFiles])

\* bzr.rs:55-109
extract_bzr(o) ==
    LET first == <<E("ExtractingVCS")>>
        bzrref == IF vsrc.fragment.key # "none" THEN vsrc.fragment.value ELSE "last:1"
    IN  IF Unsupported("bzr")
        THEN R(first, UnsupportedFragment("bzr", vsrc.fragment))
        ELSE IF work
        THEN IF o[1] # "ok" THEN R(first \o <<C("wpull")>>, VErr("Command"))
             ELSE IF o[2] # "ok"
             THEN [R(first \o <<C("wpull"), C("clean")>>, VErr("Command")) EXCEPT
                      !.files = Ref("", bzrref)]
             ELSE [R(first \o <<C("wpull"), C("clean")>>, VOk) EXCEPT
                      !.files = Ref("", bzrref)]
        ELSE IF o[1] # "ok" THEN R(first \o <<C("checkout")>>, VErr("Command"))
        ELSE [R(first \o <<C("checkout")>>, VOk) EXCEPT
                 !.work = TRUE, !.files = Ref("", bzrref)]

\* svn.rs:78-109: the checked-out copy is copied file by file; the fragment was
\* applied by download_svn.
extract_svn(o) ==
    LET first == <<E("ExtractingVCS")>>
    IN  IF o[1] # "ok" THEN [R(first, VErr("IO")) EXCEPT !.work = TRUE]
        ELSE [R(first, VOk) EXCEPT !.work = TRUE, !.files = Ref("", "copy")]

\* vcs.rs:51-60
extract_vcs(o) ==
    CASE vsrc.vcs = "git" -> extract_git(o)
      [] vsrc.vcs = "svn" -> extract_svn(o)
      [] vsrc.vcs = "hg" -> extract_hg(o)
      [] vsrc.vcs = "fossil" -> extract_fossil(o)
      [] vsrc.vcs = "bzr" -> extract_bzr(o)

\* (mutant) a branch is hashed too.
HashKinds_branch(vcs) ==
    CASE vcs = "git" -> {"tag", "commit", "branch"}
      [] vcs = "hg" -> {"tag", "revision", "branch"}
      [] vcs = "bzr" -> {"revision", "branch"}
      [] OTHER -> {}
\* The fragment kinds checksum_git, checksum_hg and checksum_bzr hash.
HashKinds(vcs) ==
    CASE vcs = "git" -> {"tag", "commit"}
      [] vcs = "hg" -> {"tag", "revision"}
      [] vcs = "bzr" -> {"revision"}
      [] OTHER -> {}

\* integ/git.rs:15-51, integ/mercurial.rs:15-56, integ/bzr.rs:17-57: the export
\* of the revision is started, hashed (o[2]: reading it may fail) and waited for.
checksum(vcs, o) ==
    IF vsrc.fragment.key \in HashKinds(vcs)
    THEN IF o[1] = "exec" THEN R(<<C("archive")>>, VErr("Command"))
         ELSE IF o[2] # "ok" THEN R(<<C("archive")>>, VErr("IO"))
         ELSE IF o[1] # "ok" THEN R(<<C("archive")>>, VErr("Command"))
         ELSE R(<<C("archive")>>, HashOf(vsrc.fragment.value))
    ELSE IF vsrc.fragment.key # "none"
    THEN R(<<>>, UnsupportedFragment(vcs, vsrc.fragment))
    ELSE R(<<>>, Skip)

\* integ/vcs.rs:32-45
checksum_vcs(o) ==
    IF vsrc.vcs \in {"git", "hg", "bzr"}
    THEN checksum(vsrc.vcs, o)
    ELSE R(<<>>, VErr("DoesNotSupportChecksums"))

InitVcsIdle ==
    /\ vsrc = [vcs |-> "none", url |-> <<>>, fragment |-> NoFragment]
    /\ hold_ver = FALSE
    /\ repo = "none"
    /\ origin = <<>>
    /\ work = FALSE
    /\ files = NoFiles
    /\ tagout = ""
    /\ ventry = [op |-> "none", repo |-> "none", origin |-> <<>>, work |-> FALSE,
                 files |-> NoFiles]
    /\ vtrace = <<>>
    /\ vret = VNone
    /\ vops = 0

\* One call of a backend function on the source: `op` over the outcomes `o` of
\* its commands. The state at entry is kept for the properties.
Call(op, res) ==
    /\ vops < MaxOps
    /\ vops' = vops + 1
    /\ ventry' = [op |-> op, repo |-> repo, origin |-> origin, work |-> work, files |-> files]
    /\ vtrace' = res.tr
    /\ vret' = res.ret
    /\ repo' = res.repo
    /\ origin' = res.origin
    /\ work' = res.work
    /\ files' = res.files
    /\ UNCHANGED <<vsrc, hold_ver, tagout>>
    /\ UNCHANGED <<frVars, runVars, dlVars, acqVars, ioVars, fnVars>>

Outcomes == [1..4 -> Outs]

Fetch == \E o \in Outcomes : Call("download", download_vcs(o))
\* The sources are verified and extracted once they were downloaded: the local
\* copy is there.
Materialize == repo = "full" /\ \E o \in Outcomes : Call("extract", extract_vcs(o))
Checksum == repo = "full" /\ \E o \in Outcomes : Call("checksum", checksum_vcs(o))

NextVcs ==
    \/ Fetch
    \/ Materialize
    \/ Checksum

----------------------------------------------------------------------------
\* process_inner with any arguments: what is read from the sockets and where
\* each chunk goes.

\* The standard streams of the command (1) and of the downstream command (2),
\* and the sockets setup_out makes: data1.outsock, data1.errsock, data2.outsock,
\* data2.errsock.
Streams == {"out1", "err1", "out2", "err2"}
Socks == {"o1", "e1", "o2", "e2"}
StreamProc(st) == IF st \in {"out2", "err2"} THEN "p2" ELSE "p1"
IsStdout(st) == st \in {"out1", "out2"}
\* The token a socket is registered with (run.rs:160-178).
TokOf(s) ==
    CASE s \in {"o1", "o2"} -> token_out
      [] s = "e1" -> token_err
      [] s = "e2" -> token_err2
\* The socket an event's token selects (run.rs:272-282): data2 for token_err2,
\* else data1; outsock for token_out, else errsock.
SockRead(tok) ==
    CASE tok = token_out -> "o1"
      [] tok = token_err -> "e1"
      [] tok = token_err2 -> "e2"
\* makepkg.id at entry is 0: data1.id and data2.id.
IdOf(p) == IF p = "p1" THEN 0 ELSE 1

\* let ignore_stdout = ignore_stdout || pipe_into.is_some();
Ignore(a) == a.ignore \/ a.pipe

NoWiring == [reg |-> {}, stdout |-> "none", stderr |-> "none"]
Data1 == setup_out(iargs.output, iargs.log, iargs.pipe, Ignore(iargs), ihow["p1"], FALSE)
Data2 ==
    IF iargs.pipe
    THEN setup_out(iargs.output, iargs.log, iargs.pipe, Ignore(iargs), ihow["p2"], TRUE)
    ELSE NoWiring
\* The sockets that exist after both setup_out calls.
Present ==
    (IF token_out \in Data1.reg THEN {"o1"} ELSE {})
    \cup (IF token_err \in Data1.reg THEN {"e1"} ELSE {})
    \cup (IF token_out \in Data2.reg THEN {"o2"} ELSE {})
    \cup (IF token_err2 \in Data2.reg THEN {"e2"} ELSE {})
\* Where a stream of a child ends up: a socket of the supervisor, the pipe to
\* the downstream command (self.stdout(Stdio::piped()) replaces what setup_out
\* had set), or "direct" (inherited, /dev/null or the policy's file).
WireOf(st) ==
    LET own(d, o, e) == CASE d = token_out -> o
                          [] d \in {token_err, token_err2} -> e
                          [] OTHER -> "direct"
    IN  CASE st = "out1" -> IF iargs.pipe THEN "pipe" ELSE own(Data1.stdout, "o1", "e1")
          [] st = "err1" -> own(Data1.stderr, "o1", "e1")
          [] st = "out2" -> own(Data2.stdout, "o2", "e2")
          [] st = "err2" -> own(Data2.stderr, "o2", "e2")

\* The write side of a socket is gone: every child holding it has exited (a
\* socket whose only write end was replaced in the Command was never held).
Hup(s) == \A st \in Streams : iwire[st] = s => iexit[StreamProc(st)] # "running"

\* A chunk, named by the stream it was written to and its number.
Chunk(st, k) == [st |-> st, k |-> k]
Sink(kind, id) == [kind |-> kind, id |-> id]

\* (mutant) the policy sink gets every chunk.
PolicyApplies_always(tok, ignore) == TRUE
\* if event.token() != token_out || !ignore_stdout
PolicyApplies(tok, ignore) == tok # token_out \/ ~ignore

\* The match on how_output: stdout() for Inherit, the observer with data.id
\* for Callback, the file for File, nothing for Null.
PolicySink(policy, id) ==
    CASE policy = "Inherit" -> {Sink("terminal", 0)}
      [] policy = "Callback" -> {Sink("observer", id)}
      [] policy = "File" -> {Sink("file", 0)}
      [] OTHER -> {}

\* run.rs:292-320: the sinks one chunk read on an event of token `tok` is
\* written to.
SinksOf(tok) ==
    (IF tok = token_out /\ iargs.output THEN {Sink("buffer", 0)} ELSE {})
    \cup (IF iargs.log THEN {Sink("log", 0)} ELSE {})
    \cup (IF PolicyApplies(tok, Ignore(iargs))
          THEN PolicySink(ihow[DataOf(tok)], IdOf(DataOf(tok)))
          ELSE {})

InitIoIdle ==
    /\ iargs = [output |-> FALSE, log |-> FALSE, ignore |-> FALSE, pipe |-> FALSE]
    /\ ihow = [p \in Procs |-> "Inherit"]
    /\ ileft = [st \in Streams |-> 0]
    /\ iwire = [st \in Streams |-> "direct"]
    /\ isock = [s \in Socks |-> <<>>]
    /\ inew = [s \in Socks |-> FALSE]
    /\ iopen = {}
    /\ ibuf = <<>>
    /\ ideliv = <<>>
    /\ iwrote = <<>>
    /\ iexit = [p \in Procs |-> "running"]
    /\ ipc = "idle"
    /\ ires = "none"

\* run.rs:204-240: both setup_out calls, the wiring and the spawns.
IoSetup ==
    /\ ipc = "entry"
    /\ iwire' = [st \in Streams |-> WireOf(st)]
    /\ iopen' = Data1.reg \cup Data2.reg
    /\ inew' = [s \in Socks |-> s \in Present /\ \A st \in Streams : WireOf(st) # s]
    /\ ipc' = "loop"
    /\ UNCHANGED <<iargs, ihow, ileft, isock, ibuf, ideliv, iwrote, iexit, ires>>
    /\ UNCHANGED <<runVars, dlVars, frVars, acqVars, vcsVars, fnVars>>

\* A child writes its next chunk to one of its streams.
IoChildWrite(st) ==
    /\ ipc = "loop"
    /\ iexit[StreamProc(st)] = "running"
    /\ ileft[st] > 0
    /\ ileft' = [ileft EXCEPT ![st] = @ - 1]
    /\ LET c == Chunk(st, ileft[st])
       IN  /\ iwrote' = Append(iwrote, c)
           /\ IF iwire[st] \in Socks
              THEN /\ isock' = [isock EXCEPT ![iwire[st]] = Append(@, c)]
                   /\ inew' = [inew EXCEPT ![iwire[st]] = TRUE]
              ELSE UNCHANGED <<isock, inew>>
    /\ UNCHANGED <<iargs, ihow, iwire, iopen, ibuf, ideliv, iexit, ipc, ires>>
    /\ UNCHANGED <<runVars, dlVars, frVars, acqVars, vcsVars, fnVars>>

\* A child exits, having written all it had to: its ends of the sockets close.
IoChildExit(p) ==
    /\ ipc = "loop"
    /\ iexit[p] = "running"
    /\ p = "p2" => iargs.pipe
    /\ \A st \in Streams : StreamProc(st) = p => ileft[st] = 0
    /\ \E status \in Statuses : iexit' = [iexit EXCEPT ![p] = status]
    /\ inew' = [s \in Socks |->
                  inew[s] \/ \E st \in Streams : StreamProc(st) = p /\ iwire[st] = s]
    /\ UNCHANGED <<iargs, ihow, ileft, iwire, isock, iopen, ibuf, ideliv, iwrote, ipc, ires>>
    /\ UNCHANGED <<runVars, dlVars, frVars, acqVars, vcsVars, fnVars>>

\* run.rs:241-348, one event of the poll for a socket that is not the stdin
\* one: the socket its token selects is read until it is empty, every chunk
\* goes to its sinks, and a closed socket clears the token's bit.
IoEvent(s) ==
    /\ ipc = "loop"
    /\ iopen # {}
    /\ s \in Present
    /\ inew[s]
    /\ LET tok == TokOf(s)
           from == SockRead(tok)
           readable == isock[s] # <<>> \/ Hup(s)
           got == IF readable /\ from \in Present THEN isock[from] ELSE <<>>
       IN  /\ isock' = IF got # <<>> THEN [isock EXCEPT ![from] = <<>>] ELSE isock
           /\ ideliv' = ideliv \o
                 [k \in 1..Len(got) |-> [chunk |-> got[k], to |-> SinksOf(tok)]]
           /\ ibuf' = IF Sink("buffer", 0) \in SinksOf(tok) THEN ibuf \o got ELSE ibuf
           /\ iopen' = IF Hup(s) THEN iopen \ {tok} ELSE iopen
    /\ inew' = [inew EXCEPT ![s] = FALSE]
    /\ UNCHANGED <<iargs, ihow, ileft, iwire, iwrote, iexit, ipc, ires>>
    /\ UNCHANGED <<runVars, dlVars, frVars, acqVars, vcsVars, fnVars>>

\* run.rs:351-366: the loop has ended; child2.wait() and child.wait().
IoReturn ==
    /\ ipc = "loop"
    /\ iopen = {}
    /\ IF iargs.pipe /\ iexit["p2"] = "running" THEN FALSE
       ELSE IF iargs.pipe /\ iexit["p2"] = "fail" THEN ires' = "fail"
       ELSE iexit["p1"] # "running" /\ ires' = iexit["p1"]
    /\ ipc' = "done"
    /\ UNCHANGED <<iargs, ihow, ileft, iwire, isock, inew, iopen, ibuf, ideliv, iwrote, iexit>>
    /\ UNCHANGED <<runVars, dlVars, frVars, acqVars, vcsVars, fnVars>>

NextIo ==
    \/ IoSetup
    \/ \E st \in Streams : IoChildWrite(st)
    \/ \E p \in Procs : IoChildExit(p)
    \/ \E s \in Socks : IoEvent(s)
    \/ IoReturn

InitFnIdle == phases = <<>>

----------------------------------------------------------------------------
\* An empty memo slot.
NoneFakeRoot == [some |-> FALSE, key |-> <<>>, child |-> 0]

InitFrIdle ==
    /\ libdirs = <<>>
    /\ libs = {}
    /\ fakeroot = NoneFakeRoot
    /\ daemons = <<>>
    /\ rets = <<>>
    /\ fpc = "none"

InitDlIdle ==
    /\ sources = <<>>
    /\ total = 0
    /\ handles = <<>>
    /\ running = 0
    /\ msgq = <<>>
    /\ events = <<>>
    /\ finalf = {}
    /\ partf = [f \in Names |-> NoFile]
    /\ dpc = "idle"
    /\ ret = NoRet
    /\ cberr = FALSE

InitRunIdle ==
    /\ mode = "none"
    /\ how = [p \in Procs |-> "Inherit"]
    /\ prog = [fd \in Fds |-> <<>>]
    /\ written = [fd \in Fds |-> 0]
    /\ fdclosed = [fd \in Fds |-> FALSE]
    /\ cwant = [p \in Procs |-> "none"]
    /\ exited = [p \in Procs |-> "running"]
    /\ wire = [fd \in Fds |-> "none"]
    /\ sock = [t \in Tokens |-> <<>>]
    /\ woken = [t \in Tokens |-> FALSE]
    /\ open = {}
    /\ evq = <<>>
    /\ cur = NoEvent
    /\ pc = "idle"
    /\ outbuf = <<>>
    /\ fwd = <<>>
    /\ ends_with_nl = TRUE
    /\ waited = {}
    /\ result = [who |-> "none", status |-> "none"]
    /\ callbacks = FALSE
    /\ makepkg_id = 0
    /\ ids = [p \in Procs |-> 0]
    /\ trace = <<>>
    /\ spawned = {}
    /\ payload = <<>>
    /\ input = <<>>
    /\ fed = <<>>
    /\ insock = <<>>
    /\ inclosed = [p \in Procs |-> FALSE]
    /\ shut = 0
    /\ wokenIn = FALSE
    /\ pipe = 0

\* The bulk sources handed over by download_sources: their final paths do not
\* exist (get_downloads skips a source that is there), a .part file of an earlier
\* attempt may.
InitDl ==
    /\ sources \in UNION {[1..k -> Names] : k \in 0..MaxSources}
    /\ total = Len(sources)
    /\ handles = <<>>
    /\ running = 0
    /\ msgq = <<>>
    /\ events = <<>>
    /\ finalf = {}
    /\ \E old \in {NoFile, [exists |-> TRUE, len |-> 1]} :
         partf = [f \in Names |-> IF f = "a" THEN old ELSE NoFile]
    /\ dpc = "entry"
    /\ ret = NoRet
    /\ cberr = FALSE
    /\ InitRunIdle
    /\ InitFrIdle
    /\ InitAcqIdle
    /\ InitVcsIdle
    /\ InitIoIdle
    /\ InitFnIdle

\* (mutant) the index counts the sources that are left.
Current_remaining(tot, rest) == Len(rest) + 1
\* make_payload(.., total - sources.len(), total), after sources.pop(): the
\* index of the session.
Current(tot, rest) == tot - Len(rest)

\* (mutant) the loop ends as soon as every source was launched.
Continue_short(run, srcs) == srcs # <<>>
\* while running > 0 || !sources.is_empty()
Continue(run, srcs) == run > 0 \/ srcs # <<>>

\* (mutant) a source is launched whenever one is queued.
CanLaunch_greedy(run, srcs) == srcs # <<>>
\* while running < max_downloads && !sources.is_empty()
CanLaunch(run, srcs) == run < max_downloads /\ srcs # <<>>

\* (mutant) the upper end of the range is not checked.
InRange_open(code) == code >= 200
\* (200..300).contains(&response)
InRange(code) == code >= 200 /\ code < 300

\* (mutant) the failure is acted on only once no transfer is in flight.
ErrHandle_lazy(hs) ==
    IF \E i \in 1..Len(hs) : hs[i].xfer \in {"active", "finished"} THEN 0
    ELSE IF \E i \in 1..Len(hs) : hs[i].err.kind # "ok"
    THEN CHOOSE i \in 1..Len(hs) :
            /\ hs[i].err.kind # "ok"
            /\ \A j \in 1..(i - 1) : hs[j].err.kind = "ok"
    ELSE 0
\* (mutant) only a status failure ends the call.
ErrHandle_status(hs) ==
    IF \E i \in 1..Len(hs) : hs[i].err.kind = "status"
    THEN CHOOSE i \in 1..Len(hs) :
            /\ hs[i].err.kind = "status"
            /\ \A j \in 1..(i - 1) : hs[j].err.kind # "status"
    ELSE 0
\* (mutant) the last handle with an error is taken, not the first.
ErrHandle_last(hs) ==
    IF \E i \in 1..Len(hs) : hs[i].err.kind # "ok"
    THEN CHOOSE i \in 1..Len(hs) :
            /\ hs[i].err.kind # "ok"
            /\ \A j \in (i + 1)..Len(hs) : hs[j].err.kind = "ok"
    ELSE 0
\* handles.iter_mut().find(|h| h.get_ref().err.is_err()): its position, 0 if none.
ErrHandle(hs) ==
    IF \E i \in 1..Len(hs) : hs[i].err.kind # "ok"
    THEN CHOOSE i \in 1..Len(hs) :
            /\ hs[i].err.kind # "ok"
            /\ \A j \in 1..(i - 1) : hs[j].err.kind = "ok"
    ELSE 0

\* The branch handle_messages takes for one completion message.
Outcome(res, code, renameOk) ==
    IF res = "err" THEN "curl"
    ELSE IF ~InRange(code) THEN "status"
    ELSE IF ~renameOk THEN "rename"
    ELSE "completed"

\* (mutant) the status branch does not return and goes on to Completed.
TerminalOf_fallthrough(outcome, n, code) ==
    CASE outcome = "status" -> <<Ev("Failed", n, code), Ev("Completed", n, 0)>>
      [] outcome = "completed" -> <<Ev("Completed", n, 0)>>
      [] OTHER -> <<>>
\* The events that branch hands to the observer.
TerminalOf(outcome, n, code) ==
    CASE outcome = "status" -> <<Ev("Failed", n, code)>>
      [] outcome = "completed" -> <<Ev("Completed", n, 0)>>
      [] OTHER -> <<>>

\* (mutant) the batch is entered without DownloadStart.
DlStart_silent ==
    /\ dpc = "entry"
    /\ IF sources = <<>>
       THEN ret' = Ok /\ dpc' = "done"
       ELSE dpc' = "loop" /\ UNCHANGED ret
    /\ UNCHANGED <<acqVars, vcsVars, ioVars, fnVars, frVars, runVars, sources, total, handles, running, msgq, events, finalf, partf, cberr>>
\* curl.rs:85-89: nothing to do for an empty list, else DownloadStart(total).
DlStart ==
    /\ dpc = "entry"
    /\ IF sources = <<>>
       THEN /\ ret' = Ok
            /\ dpc' = "done"
            /\ UNCHANGED <<events>>
       ELSE \E ok \in BOOLEAN :
            /\ events' = Append(events, Ev("Start", total, 0))
            /\ cberr' = (cberr \/ ~ok)
            /\ IF ok
               THEN dpc' = "loop" /\ UNCHANGED ret
               ELSE dpc' = "done" /\ ret' = Err("observer", 0, 0)
    /\ UNCHANGED <<acqVars, vcsVars, ioVars, fnVars, frVars, runVars, sources, total, handles, running, msgq, finalf, partf, cberr>>

\* The outer loop condition; after the loop: drop(handles), DownloadEnd, Ok(()).
LoopCond ==
    /\ dpc = "loop"
    /\ IF Continue(running, sources)
       THEN /\ dpc' = "launch"
            /\ UNCHANGED <<events, ret>>
       ELSE \E ok \in BOOLEAN :
            /\ events' = Append(events, Ev("End", 0, 0))
            /\ cberr' = (cberr \/ ~ok)
            /\ ret' = IF ok THEN Ok ELSE Err("observer", 0, 0)
            /\ dpc' = "done"
    /\ UNCHANGED <<acqVars, vcsVars, ioVars, fnVars, frVars, runVars, sources, total, handles, running, msgq, finalf, partf, cberr>>

\* One round of the inner loop: pop a source, make_payload (open the .part file,
\* Init, curl options), event(DownloadingCurl), add2, push. Each `?` returns.
Launch ==
    /\ dpc = "launch"
    /\ CanLaunch(running, sources)
    /\ LET name == sources[Len(sources)]
           rest == SubSeq(sources, 1, Len(sources) - 1)
           n == Current(total, rest)
       IN  /\ sources' = rest
           /\ \E out \in {"ok", "open", "observer", "setup"} :
                /\ cberr' = (cberr \/ out = "observer")
                /\ IF out = "open"
                   THEN /\ ret' = Err("open", n, 0)
                        /\ dpc' = "done"
                        /\ UNCHANGED <<partf, events, handles, running>>
                   ELSE /\ partf' = [partf EXCEPT ![name] =
                                       IF @.exists THEN @ ELSE [exists |-> TRUE, len |-> 0]]
                        /\ events' = Append(events, Ev("Init", n, 0))
                        /\ IF out = "ok"
                           THEN /\ handles' = Append(handles, NewHandle(n, name))
                                /\ running' = running + 1
                                /\ dpc' = "launch"
                                /\ UNCHANGED ret
                           ELSE /\ ret' = Err(out, n, 0)
                                /\ dpc' = "done"
                                /\ UNCHANGED <<handles, running>>
    /\ UNCHANGED <<acqVars, vcsVars, ioVars, fnVars, frVars, runVars, total, msgq, finalf>>

\* The inner loop condition fails: on to curlm.perform().
LaunchDone ==
    /\ dpc = "launch"
    /\ ~CanLaunch(running, sources)
    /\ dpc' = "perform"
    /\ UNCHANGED <<acqVars, vcsVars, ioVars, fnVars, frVars, runVars, sources, total, handles, running, msgq, events, finalf, partf, ret, cberr>>

\* ---- inside curlm.perform(): libcurl drives the transfers and calls back ----

\* Handler::progress: Progress to the observer; an observer error is stored in
\* the handle and `false` makes libcurl abort that transfer.
XferProgress(i) ==
    /\ dpc = "perform"
    /\ handles[i].xfer = "active"
    /\ handles[i].prog < MaxProgress
    /\ events' = Append(events, Ev("Progress", handles[i].n, 0))
    /\ \E ok \in BOOLEAN :
         /\ cberr' = (cberr \/ ~ok)
         /\ IF ok
            THEN /\ handles' = [handles EXCEPT ![i].prog = @ + 1]
                 /\ UNCHANGED msgq
            ELSE /\ handles' = [handles EXCEPT ![i].prog = @ + 1,
                                               ![i].err = Err("observer", handles[i].n, 0),
                                               ![i].xfer = "finished",
                                               ![i].res = "err"]
                 /\ msgq' = Append(msgq, i)
    /\ UNCHANGED <<acqVars, vcsVars, ioVars, fnVars, frVars, runVars, sources, total, running, finalf, partf, dpc, ret>>

\* Handler::write: the data goes to the handle's file; a write error is stored in
\* the handle and WriteError::Pause pauses the transfer.
XferWrite(i) ==
    /\ dpc = "perform"
    /\ handles[i].xfer = "active"
    /\ \E ok \in BOOLEAN :
         IF ok
         THEN /\ partf[handles[i].name].exists
              /\ partf[handles[i].name].len < MaxPart
              /\ partf' = [partf EXCEPT ![handles[i].name].len = @ + 1]
              /\ UNCHANGED handles
         ELSE /\ handles' = [handles EXCEPT ![i].err = Err("write", handles[i].n, 0),
                                            ![i].xfer = "paused"]
              /\ UNCHANGED partf
    /\ UNCHANGED <<acqVars, vcsVars, ioVars, fnVars, frVars, runVars, sources, total, running, msgq, events, finalf, dpc, ret, cberr>>

\* A transfer ends: with a response status, or with a transport error.
XferFinish(i) ==
    /\ dpc = "perform"
    /\ handles[i].xfer = "active"
    /\ \E res \in {"ok", "err"}, code \in Codes :
         /\ (res = "err" => code = 0)
         /\ handles' = [handles EXCEPT ![i].xfer = "finished", ![i].res = res,
                                       ![i].code = code]
    /\ msgq' = Append(msgq, i)
    /\ UNCHANGED <<acqVars, vcsVars, ioVars, fnVars, frVars, runVars, sources, total, running, events, finalf, partf, dpc, ret, cberr>>

\* curlm.perform()? or curlm.wait(..)? fails.
PerformFail ==
    /\ dpc = "perform"
    /\ ret' = Err("multi", 0, 0)
    /\ dpc' = "done"
    /\ UNCHANGED <<acqVars, vcsVars, ioVars, fnVars, frVars, runVars, sources, total, handles, running, msgq, events, finalf, partf, cberr>>

\* running = curlm.perform()?; curlm.wait(..)?
PerformReturn ==
    /\ dpc = "perform"
    /\ running' = Cardinality({i \in 1..Len(handles) : handles[i].xfer \in {"active", "paused"}})
    /\ dpc' = "messages"
    /\ UNCHANGED <<acqVars, vcsVars, ioVars, fnVars, frVars, runVars, sources, total, handles, msgq, events, finalf, partf, ret, cberr>>

\* handle_messages, for one message: transport error, status out of range
\* (Failed), rename of the .part file, Completed.
HandleMessage ==
    /\ dpc = "messages"
    /\ msgq # <<>>
    /\ LET i == Head(msgq)
           h == handles[i]
       IN  \E renameOk \in BOOLEAN, ok \in BOOLEAN :
             LET o == Outcome(h.res, h.code, renameOk)
                 evs == TerminalOf(o, h.n, h.code)
                 renames == o = "completed"
             IN  /\ (renameOk => partf[h.name].exists)
                 /\ (evs = <<>> => ok)
                 /\ (~(InRange(h.code) /\ h.res = "ok") => renameOk)
                 /\ events' = events \o evs
                 /\ cberr' = (cberr \/ ~ok)
                 /\ finalf' = IF renames THEN finalf \cup {h.name} ELSE finalf
                 /\ partf' = IF renames THEN [partf EXCEPT ![h.name] = NoFile] ELSE partf
                 /\ handles' = [handles EXCEPT
                        ![i].xfer = "handled",
                        ![i].renamed = renames,
                        ![i].err = CASE o = "curl" -> Err("curl", h.n, 0)
                                     [] o = "rename" -> Err("rename", h.n, 0)
                                     [] ~ok -> Err("observer", h.n, 0)
                                     [] o = "status" -> Err("status", h.n, h.code)
                                     [] OTHER -> h.err]
    /\ msgq' = Tail(msgq)
    /\ UNCHANGED <<acqVars, vcsVars, ioVars, fnVars, frVars, runVars, sources, total, running, dpc, ret>>

\* After handle_messages: the first handle with an error ends the call, after
\* drop(curlm), drop(handles) and DownloadEnd.
Check ==
    /\ dpc = "messages"
    /\ msgq = <<>>
    /\ LET k == ErrHandle(handles)
       IN  IF k # 0
           THEN \E ok \in BOOLEAN :
                /\ events' = Append(events, Ev("End", 0, 0))
                /\ cberr' = (cberr \/ ~ok)
                /\ ret' = IF ok THEN handles[k].err ELSE Err("observer", 0, 0)
                /\ dpc' = "done"
           ELSE /\ dpc' = "loop"
                /\ UNCHANGED <<events, ret>>
    /\ UNCHANGED <<acqVars, vcsVars, ioVars, fnVars, frVars, runVars, sources, total, handles, running, msgq, finalf, partf, cberr>>

NextDl ==
    \/ DlStart
    \/ LoopCond
    \/ Launch
    \/ LaunchDone
    \/ \E i \in 1..Len(handles) : XferProgress(i)
    \/ \E i \in 1..Len(handles) : XferWrite(i)
    \/ \E i \in 1..Len(handles) : XferFinish(i)
    \/ PerformFail
    \/ PerformReturn
    \/ HandleMessage
    \/ Check

SpecDl == InitDl /\ [][NextDl]_vars

----------------------------------------------------------------------------
\* Makepkg::fakeroot: the memo slot, the library search and the faked daemon.

\* str::split(sep): the pieces between the separators, empty ones included (the
\* empty string has one empty piece).
RECURSIVE Split(_, _)
Split(s, sep) ==
    IF s = <<>> THEN << <<>> >>
    ELSE LET rest == Split(Tail(s), sep)
         IN  IF Head(s) = sep
             THEN << <<>> >> \o rest
             ELSE << <<Head(s)>> \o Head(rest) >> \o Tail(rest)

\* (mutant) only the first directory of the list is taken.
SearchList_first(s) == <<Head(Split(s, Colon))>>
\* FAKEROOT_LIBDIRS.split(':')
SearchList(s) == Split(s, Colon)

\* .any(|dir| Path::new(dir).join(FakeRoot::library_name()).exists())
LibFound(s, present) == \E i \in 1..Len(SearchList(s)) : SearchList(s)[i] \in present

\* std::str::from_utf8 on the bytes the daemon can announce (ASCII or 0xff).
Utf8Ok(bs) == \A i \in 1..Len(bs) : bs[i] < 128

\* key.split_once(':').unwrap().0 : the bytes before the first colon.
SplitOnce(bs) ==
    IF \E i \in 1..Len(bs) : bs[i] = Colon
    THEN LET k == CHOOSE i \in 1..Len(bs) : bs[i] = Colon /\ \A j \in 1..(i - 1) : bs[j] # Colon
         IN  [some |-> TRUE, key |-> SubSeq(bs, 1, k - 1)]
    ELSE [some |-> FALSE, key |-> <<>>]

SomeFakeRoot(key, child) == [some |-> TRUE, key |-> key, child |-> child]

\* Result<String> of fakeroot(), and a panic that unwinds out of it.
OkKey(key) == [kind |-> "ok", key |-> key, dirs |-> <<>>]
ErrFindLibfakeroot(dirs) == [kind |-> "findlib", key |-> <<>>, dirs |-> dirs]
ErrSpawn == [kind |-> "spawn", key |-> <<>>, dirs |-> <<>>]
Panicked == [kind |-> "panic", key |-> <<>>, dirs |-> <<>>]

\* Values of FAKEROOT_LIBDIRS a build can have, the directories they name, and
\* what a faked daemon can print first: "key:pid", or something else.
LibDirStrings == {<<>>, <<97>>, <<97, Colon, 98>>}
LibDirNames == {<<>>, <<97>>, <<98>>}
DaemonOutputs == {<<49, Colon, 55>>, <<50, Colon, 55>>, <<49, 50>>, <<>>, <<255, Colon, 55>>,
                  <<49, 50, 51, 52, Colon, 55>>}

\* (mutant) the slot is never taken as filled.
MemoHit_never(slot) == FALSE
\* if let Some(fakeroot) = fakeroot.deref()
MemoHit(slot) == slot.some

InitFr ==
    /\ libdirs \in LibDirStrings
    /\ libs \in SUBSET LibDirNames
    /\ fakeroot = NoneFakeRoot
    /\ daemons = <<>>
    /\ rets = <<>>
    /\ fpc = "idle"
    /\ InitRunIdle
    /\ InitDlIdle
    /\ InitAcqIdle
    /\ InitVcsIdle
    /\ InitIoIdle
    /\ InitFnIdle

\* run.rs:507-547, one call: the memo slot, the library check, the spawn of
\* `faked --foreground`, the read and the parse of the key (three unwraps), and
\* the fill of the slot.
FakerootCall ==
    /\ fpc = "idle"
    /\ Len(rets) < MaxCalls
    /\ IF MemoHit(fakeroot)
       THEN /\ rets' = Append(rets, OkKey(fakeroot.key))
            /\ UNCHANGED <<fakeroot, daemons, fpc>>
       ELSE IF ~LibFound(libdirs, libs)
       THEN /\ rets' = Append(rets, ErrFindLibfakeroot(SearchList(libdirs)))
            /\ UNCHANGED <<fakeroot, daemons, fpc>>
       ELSE \E started \in BOOLEAN :
            IF ~started
            THEN /\ rets' = Append(rets, ErrSpawn)
                 /\ UNCHANGED <<fakeroot, daemons, fpc>>
            ELSE \E out \in DaemonOutputs, readOk \in BOOLEAN :
                 LET n == Min(KeyBufLen, Len(out))
                     bytes == SubSeq(out, 1, n)
                     parsed == SplitOnce(bytes)
                     child == Len(daemons) + 1
                 IN  /\ daemons' = Append(daemons, "running")
                     /\ IF readOk /\ Utf8Ok(bytes) /\ parsed.some
                        THEN /\ fakeroot' = SomeFakeRoot(parsed.key, child)
                             /\ rets' = Append(rets, OkKey(parsed.key))
                             /\ UNCHANGED fpc
                        ELSE /\ rets' = Append(rets, Panicked)
                             /\ fpc' = "panicked"
                             /\ UNCHANGED fakeroot
    /\ UNCHANGED <<acqVars, vcsVars, ioVars, runVars, dlVars, libdirs, libs>>
\* fakeroot() called on its own.
Fakeroot == FakerootCall /\ UNCHANGED fnVars

\* The fakeroot library is installed in, or removed from, a directory.
LibChange(d) ==
    /\ fpc = "idle"
    /\ libs' = IF d \in libs THEN libs \ {d} ELSE libs \cup {d}
    /\ UNCHANGED <<acqVars, vcsVars, ioVars, fnVars, runVars, dlVars, libdirs, fakeroot, daemons, rets, fpc>>

\* A faked daemon exits by itself.
DaemonExit(d) ==
    /\ daemons[d] = "running"
    /\ daemons' = [daemons EXCEPT ![d] = "exited"]
    /\ UNCHANGED <<acqVars, vcsVars, ioVars, fnVars, runVars, dlVars, libdirs, libs, fakeroot, rets, fpc>>

\* The Makepkg goes out of scope (return, error, or the unwinding of a panic):
\* impl Drop for FakeRoot kills the child held in the slot, if there is one.
DropMakepkg ==
    /\ fpc \in {"idle", "panicked"}
    /\ fpc' = "dropped"
    /\ daemons' = IF fakeroot.some /\ daemons[fakeroot.child] = "running"
                  THEN [daemons EXCEPT ![fakeroot.child] = "killed"]
                  ELSE daemons
    /\ UNCHANGED <<acqVars, vcsVars, ioVars, fnVars, runVars, dlVars, libdirs, libs, fakeroot, rets>>

NextFr ==
    \/ Fakeroot
    \/ \E d \in LibDirNames : LibChange(d)
    \/ \E d \in 1..Len(daemons) : DaemonExit(d)
    \/ DropMakepkg

SpecFr == InitFr /\ [][NextFr]_vars

----------------------------------------------------------------------------
\* run_function_internal: one phase of the recipe.

\* The phase functions run_function passes on, as the pieces of their names.
FunctionNames ==
    {<<"verify">>, <<"prepare">>, <<"pkgver">>, <<"build">>, <<"check">>,
     <<"package">>, <<"package", "_foo">>}
\* str::starts_with
starts_with(f, prefix) == f # <<>> /\ f[1] = prefix

\* (mutant) every phase is run under fakeroot.
Privileged_all(f) == TRUE
\* if function.starts_with("package") { self.fakeroot_env(&mut command)?; }
Privileged(f) == starts_with(f, "package")

\* The environment fakeroot_env puts on the command: the preload library and
\* FAKEROOTKEY; NoEnv when it was not called or returned an error.
NoEnv == [preload |-> FALSE, key |-> <<>>]
FakerootEnv(key) == [preload |-> TRUE, key |-> key]
NoCall == [kind |-> "none", key |-> <<>>, dirs |-> <<>>]

\* run.rs:424-505, one call: the command is built, fakeroot_env for a package
\* function (its error returns), the log file is opened (its error returns),
\* and the phase is spawned through process_function.
RunFunction(f) ==
    /\ fpc = "idle"
    /\ Len(phases) < MaxPhases
    /\ \E logOk \in BOOLEAN :
         IF Privileged(f)
         THEN /\ FakerootCall
              /\ LET r == rets'[Len(rets')]
                 IN  phases' = Append(phases,
                        [function |-> f, ret |-> r,
                         env |-> IF r.kind = "ok" THEN FakerootEnv(r.key) ELSE NoEnv,
                         spawned |-> (r.kind = "ok" /\ logOk),
                         before |-> Len(daemons), after |-> Len(daemons')])
         ELSE /\ phases' = Append(phases,
                        [function |-> f, ret |-> NoCall, env |-> NoEnv,
                         spawned |-> logOk,
                         before |-> Len(daemons), after |-> Len(daemons)])
              /\ UNCHANGED <<frVars, runVars, dlVars, acqVars, vcsVars, ioVars>>

NextFn ==
    \/ \E f \in FunctionNames : RunFunction(f)
    \/ \E d \in LibDirNames : LibChange(d)
    \/ \E d \in 1..Len(daemons) : DaemonExit(d)

\* The phases of a build on one Makepkg.
SpecFn == InitFr /\ [][NextFn]_vars

----------------------------------------------------------------------------
\* process_inner called with any arguments; the downstream command exists in
\* a pipeline only.
InitIo ==
    /\ iargs \in [output : BOOLEAN, log : BOOLEAN, ignore : BOOLEAN, pipe : BOOLEAN]
    /\ ihow \in [Procs -> Policies]
    /\ (~iargs.pipe => ihow["p2"] = "Inherit")
    /\ ileft \in [Streams -> 0..MaxChunks]
    /\ (~iargs.pipe => ileft["out2"] = 0 /\ ileft["err2"] = 0)
    /\ iwire = [st \in Streams |-> "direct"]
    /\ isock = [s \in Socks |-> <<>>]
    /\ inew = [s \in Socks |-> FALSE]
    /\ iopen = {}
    /\ ibuf = <<>>
    /\ ideliv = <<>>
    /\ iwrote = <<>>
    /\ iexit = [p \in Procs |-> "running"]
    /\ ipc = "entry"
    /\ ires = "none"
    /\ InitRunIdle
    /\ InitDlIdle
    /\ InitFrIdle
    /\ InitAcqIdle
    /\ InitVcsIdle
    /\ InitFnIdle

SpecIo == InitIo /\ [][NextIo]_vars

\* download_sources, for the sources of a recipe and a configuration.
InitAcq ==
    /\ all_sources \in UNION {[1..k -> [proto : Protos, exists : BOOLEAN]] : k \in 0..MaxSrc}
    /\ dl_agents \in AgentConfigs
    /\ vcs_agents \in VcsConfigs
    /\ downloads = NoDownloads.dl
    /\ vcs_downloads = NoDownloads.vcs
    /\ found = <<>>
    /\ queue = <<>>
    /\ atrace = <<>>
    /\ apc = "entry"
    /\ aret = NoRet
    /\ InitRunIdle
    /\ InitDlIdle
    /\ InitFrIdle
    /\ InitVcsIdle
    /\ InitIoIdle
    /\ InitFnIdle

SpecAcq == InitAcq /\ [][NextAcq]_vars

\* The operations on one VCS source, whatever the state of its local copy and
\* of its work tree. Only git looks at a ".git" suffix and at the tag object.
InitVcs ==
    /\ vsrc \in [vcs : VCSKind, url : {<<"u1">>, <<"u1", ".git">>}, fragment : Fragments]
    /\ (vsrc.vcs # "git" => vsrc.url = <<"u1">>)
    /\ hold_ver \in BOOLEAN
    /\ repo \in {"none", "partial", "full"}
    /\ origin \in Urls \cup {<<>>}
    /\ (origin = <<>>) = (repo = "none")
    /\ work \in BOOLEAN
    /\ files = IF work THEN DefaultFiles ELSE NoFiles
    /\ tagout \in RefNames \cup {""}
    /\ (vsrc.vcs # "git" => tagout = "")
    /\ ventry = [op |-> "none", repo |-> "none", origin |-> <<>>, work |-> FALSE,
                 files |-> NoFiles]
    /\ vtrace = <<>>
    /\ vret = VNone
    /\ vops = 0
    /\ InitRunIdle
    /\ InitDlIdle
    /\ InitFrIdle
    /\ InitAcqIdle
    /\ InitIoIdle
    /\ InitFnIdle

SpecVcs == InitVcs /\ [][NextVcs]_vars

----------------------------------------------------------------------------
\* process_read / process_spawn: one command.
InitRun ==
    /\ InitRunVars
    /\ mode \in {"read", "spawn"}
    /\ InitDlIdle
    /\ InitFrIdle
    /\ InitAcqIdle
    /\ InitVcsIdle
    /\ InitIoIdle
    /\ InitFnIdle

SupervisorStep == Setup \/ Poll \/ NextEvent \/ Read \/ Closed \/ LoopEnd \/ Wait1
ChildStep ==
    \/ \E fd \in Fds : ChildWrite(fd)
    \/ \E fd \in Fds : ChildUnblock(fd)
    \/ \E fd \in Fds : ChildClose(fd)
    \/ \E p \in Procs : ChildExit(p)

NextRun ==
    \/ Setup
    \/ Poll
    \/ NextEvent
    \/ Read
    \/ Closed
    \/ LoopEnd
    \/ Wait1
    \/ \E fd \in Fds : ChildWrite(fd)
    \/ \E fd \in Fds : ChildUnblock(fd)
    \/ \E fd \in Fds : ChildClose(fd)
    \/ \E p \in Procs : ChildExit(p)

SpecRun == InitRun /\ [][NextRun]_vars

\* The scheduler runs the supervisor whenever it can take a step, and the child
\* keeps running until it has written its bytes, closed its streams and exited.
FairRun ==
    /\ SpecRun
    /\ WF_vars(SupervisorStep)
    /\ WF_vars(ChildStep)

\* process_pipe: a two-process pipeline.
InitPipe ==
    /\ InitRunVars
    /\ mode = "pipe"
    /\ \A fd \in Fds : Len(prog[fd]) <= MaxVolPipe
    /\ InitDlIdle
    /\ InitFrIdle
    /\ InitAcqIdle
    /\ InitVcsIdle
    /\ InitIoIdle
    /\ InitFnIdle

NextPipe ==
    \/ Setup
    \/ Poll
    \/ NextEvent
    \/ Read
    \/ Closed
    \/ LoopEnd
    \/ Wait2
    \/ Wait1
    \/ \E fd \in Fds : ChildWrite(fd)
    \/ \E fd \in Fds : ChildUnblock(fd)
    \/ \E fd \in Fds : ChildClose(fd)
    \/ \E p \in Procs : ChildExit(p)

SpecPipe == InitPipe /\ [][NextPipe]_vars

\* ---- runs with an observer or without, a payload, failing system calls ----
PayloadOf(n) == [i \in 1..n |-> 200 + i]

\* The state at the entry of process_inner for the wrappers in `modes`, with an
\* observer installed or not (`cbs`), payloads of the lengths in `pays`, and
\* children that write up to `vol` bytes to stdout and less to stderr.
InitWith(modes, cbs, pays, vol) ==
    /\ mode \in modes
    /\ callbacks \in cbs
    /\ how \in [Procs -> {"Inherit", "Callback"}]
    /\ (~callbacks => how = [p \in Procs |-> "Inherit"])
    /\ (~HasPipe(mode) => how["p2"] = "Inherit")
    /\ prog \in [Fds -> Progs(vol)]
    /\ prog["out1"] \in {ProgOf(n, FALSE) : n \in 0..vol}
    /\ \A fd \in {"err1", "err2"} : Len(prog[fd]) < vol
    /\ (~HasPipe(mode) => prog["err2"] = <<>>)
    /\ payload \in {PayloadOf(n) : n \in pays}
    /\ input = payload
    /\ written = [fd \in Fds |-> 0]
    /\ fdclosed = [fd \in Fds |-> FALSE]
    /\ cwant = [p \in Procs |-> "none"]
    /\ exited = [p \in Procs |-> "running"]
    /\ wire = [fd \in Fds |-> "none"]
    /\ sock = [t \in Tokens |-> <<>>]
    /\ woken = [t \in Tokens |-> FALSE]
    /\ open = {}
    /\ evq = <<>>
    /\ cur = NoEvent
    /\ pc = "entry"
    /\ outbuf = <<>>
    /\ fwd = <<>>
    /\ ends_with_nl = TRUE
    /\ waited = {}
    /\ result = NoResult
    /\ makepkg_id = 0
    /\ ids = [p \in Procs |-> 0]
    /\ trace = <<>>
    /\ spawned = {}
    /\ fed = <<>>
    /\ insock = <<>>
    /\ inclosed = [p \in Procs |-> FALSE]
    /\ shut = 0
    /\ wokenIn = FALSE
    /\ pipe = 0
    /\ InitDlIdle
    /\ InitFrIdle
    /\ InitAcqIdle
    /\ InitVcsIdle
    /\ InitIoIdle
    /\ InitFnIdle

\* process_function and process_pipe without a payload, with or without an
\* observer, and with system calls that may fail.
InitCmd == InitWith({"function", "pipe"}, BOOLEAN, {0}, MaxVolCmd)

NextCmd ==
    \/ Setup
    \/ \E k \in 1..2 : SetupFail(k)
    \/ Poll
    \/ NextEvent
    \/ Read
    \/ Closed
    \/ LoopEnd
    \/ Wait2
    \/ Wait1
    \/ IoFail
    \/ \E fd \in Fds : ChildWrite(fd)
    \/ \E fd \in Fds : ChildUnblock(fd)
    \/ \E fd \in Fds : ChildClose(fd)
    \/ \E p \in Procs : ChildExit(p)
    \/ \E p \in Procs : ChildReadIn(p)

SpecCmd == InitCmd /\ [][NextCmd]_vars

\* process_function with a payload, for a child that may read its stdin, close
\* it early, or be killed.
InitIn == InitWith({"function"}, {TRUE}, 1..MaxPayload, MaxVolCmd)

NextIn ==
    \/ Setup
    \/ Poll
    \/ NextEvent
    \/ Feed
    \/ Read
    \/ Closed
    \/ LoopEnd
    \/ Wait1
    \/ \E fd \in Fds : ChildWrite(fd)
    \/ \E fd \in Fds : ChildUnblock(fd)
    \/ \E fd \in Fds : ChildClose(fd)
    \/ \E p \in Procs : ChildExit(p)
    \/ \E p \in Procs : ChildReadIn(p)
    \/ \E p \in Procs : ChildCloseIn(p)
    \/ \E p \in Procs : ChildKill(p)

SpecIn == InitIn /\ [][NextIn]_vars

\* process_pipe, with or without a payload, for children that may be killed or
\* exit before they have read their stdin; the downstream command writes nothing
\* to its stderr.
InitCancel ==
    /\ InitWith({"pipe"}, {TRUE}, 0..1, MaxVolCmd)
    /\ prog["err2"] = <<>>
    /\ how["p2"] = "Inherit"

SupervisorCancel ==
    Setup \/ Poll \/ NextEvent \/ Feed \/ Read \/ Closed \/ LoopEnd \/ Wait2 \/ Wait1
ChildCancel ==
    \/ \E fd \in Fds : ChildWrite(fd)
    \/ \E fd \in Fds : ChildUnblock(fd)
    \/ \E fd \in Fds : ChildClose(fd)
    \/ \E p \in Procs : ChildExit(p)
    \/ \E p \in Procs : ChildReadIn(p)

NextCancel ==
    \/ Setup
    \/ Poll
    \/ NextEvent
    \/ Feed
    \/ Read
    \/ Closed
    \/ LoopEnd
    \/ Wait2
    \/ Wait1
    \/ \E fd \in Fds : ChildWrite(fd)
    \/ \E fd \in Fds : ChildUnblock(fd)
    \/ \E fd \in Fds : ChildClose(fd)
    \/ \E p \in Procs : ChildExit(p)
    \/ \E p \in Procs : ChildReadIn(p)
    \/ \E p \in Procs : ChildKill(p)

SpecCancel == InitCancel /\ [][NextCancel]_vars

\* The scheduler runs the supervisor whenever it can take a step, and a child
\* that is not blocked keeps running: it writes, reads, closes and exits.
FairCancel ==
    /\ SpecCancel
    /\ WF_vars(SupervisorCancel)
    /\ WF_vars(ChildCancel)

----------------------------------------------------------------------------
\* Properties of download_curl_sources.

Idx == 1..Len(events)
HIdx == 1..Len(handles)
Has(e, n) == \E k \in Idx : events[k].e = e /\ events[k].n = n
CountOf(e) == Cardinality({k \in Idx : events[k].e = e})
Terminals(n) == {k \in Idx : events[k].e \in {"Completed", "Failed"} /\ events[k].n = n}
Failing(kind) == kind \in {"status", "curl", "rename", "write"}

\* C4: the events start with DownloadStart(total), every Progress, Completed or
\* Failed of a session comes after the Init of that session, and nothing comes
\* after DownloadEnd.
C4_EventOrder ==
    /\ events # <<>> => events[1] = Ev("Start", total, 0)
    /\ \A k \in Idx : events[k].e \in {"Progress", "Completed", "Failed"} =>
           \E j \in 1..(k - 1) : events[j].e = "Init" /\ events[j].n = events[k].n
    /\ \A k \in Idx : events[k].e = "End" => k = Len(events)

\* C4 witness: a batch of three has ended well, and the progress of session 2
\* was reported before the progress of session 1.
C4_Witness ==
    /\ dpc = "done"
    /\ ret = Ok
    /\ total = 3
    /\ \E j, k \in Idx :
         /\ j < k
         /\ events[j] = Ev("Progress", 2, 0)
         /\ events[k] = Ev("Progress", 1, 0)
    /\ events[Len(events)].e = "End"

C5_State ==
    /\ \A i \in HIdx :
         LET h == handles[i]
         IN  /\ Has("Completed", h.n) <=> h.renamed
             /\ h.renamed => (h.res = "ok" /\ h.code \in 200..299)
             /\ Has("Failed", h.n) =>
                  /\ ~h.renamed
                  /\ \/ partf[h.name].exists
                     \/ \E j \in HIdx : handles[j].name = h.name /\ handles[j].renamed
    /\ finalf = {handles[i].name : i \in {j \in HIdx : handles[j].renamed}}

C5_Step ==
    \A f \in Names : partf[f].exists =>
        \/ partf'[f].exists /\ partf'[f].len >= partf[f].len
        \/ \E i \in HIdx : handles[i].name = f /\ ~handles[i].renamed /\ handles'[i].renamed

C7_Bracket ==
    (dpc = "done" /\ CountOf("Start") >= 1 /\ ret.kind # "observer") =>
        (CountOf("Start") = 1 /\ CountOf("End") = 1)

FirstFailed == CHOOSE k \in Idx : events[k].e = "Failed" /\ \A j \in 1..(k - 1) : events[j].e # "Failed"

C10_NoLaunchAfterFailure ==
    [][(\E i \in HIdx : handles[i].err.kind # "ok") =>
          /\ sources' = sources
          /\ ~(Len(events') > Len(events) /\ events'[Len(events')].e = "Init")]_vars

\* C10 witness: the call has returned the error of a transfer while a source
\* was still queued.
C10_Witness ==
    /\ dpc = "done"
    /\ Failing(ret.kind)
    /\ sources # <<>>
    /\ events[Len(events)].e = "End"

\* Transfers libcurl counts as running: added and neither ended nor removed.
ActiveXfers == {i \in HIdx : handles[i].xfer \in {"active", "paused"}}

C11_State ==
    /\ Cardinality(ActiveXfers) <= max_downloads
    /\ Len(handles) + Len(sources) <= total
    /\ \A i, j \in HIdx : handles[i].n = handles[j].n => i = j
    /\ \A j, k \in Idx :
         (events[j].e = "Init" /\ events[k].e = "Init" /\ events[j].n = events[k].n) => j = k

C11_Step ==
    /\ \E k \in 0..1 : sources' = SubSeq(sources, 1, Len(sources) - k)
    /\ Len(handles') <= Len(handles) + (Len(sources) - Len(sources'))
    /\ sources' # sources => Cardinality(ActiveXfers) < max_downloads

\* C11: at most max_downloads transfers are active at any moment, a source is
\* taken from the queue only while fewer than max_downloads are active, and a
\* source that was taken is gone from the queue: it is started once at most, under
\* a session index no other transfer has.
C11_BoundedConcurrency == [][C11_State' /\ C11_Step]_vars

\* C11 witness: the pool is full again after a third source was started in the
\* slot that an ended transfer had freed.
C11_Witness ==
    /\ Len(handles) = max_downloads + 1
    /\ Cardinality(ActiveXfers) = max_downloads
    /\ handles[Len(handles)].xfer = "active"
    /\ \E i \in HIdx : handles[i].xfer = "handled"

----------------------------------------------------------------------------
\* Properties of Makepkg::fakeroot.

RIdx == 1..Len(rets)

C12_State ==
    /\ \A i, j \in RIdx :
         (rets[i].kind = "ok" /\ rets[j].kind = "ok") => rets[i].key = rets[j].key
    /\ (\E i \in RIdx : rets[i].kind = "ok") =>
         /\ Len(daemons) = 1
         /\ fakeroot.some
         /\ fakeroot.child = 1
         /\ \A i \in RIdx : rets[i].kind = "ok" => rets[i].key = fakeroot.key

C12_Step == fakeroot.some => fakeroot' = fakeroot

\* C12: all the successful calls of fakeroot() on one Makepkg return the same
\* key, which is the key in the memo slot; once one call succeeded exactly one
\* faked daemon was spawned, whatever failed calls, library changes or daemon
\* exits come in between; and a filled slot is never written again.
C12_IdempotentSession == [][C12_State' /\ C12_Step]_vars

\* C12 witness: a first call failed for want of the library, the next two
\* succeeded, the second of them after the daemon had exited by itself.
C12_Witness ==
    /\ Len(rets) = 3
    /\ rets[1].kind = "findlib"
    /\ rets[2].kind = "ok"
    /\ rets[3].kind = "ok"
    /\ Len(daemons) = 1
    /\ daemons[1] = "exited"
    /\ fpc = "idle"

\* C13: once the Makepkg has been dropped, no faked daemon that fakeroot()
\* spawned is still running, whichever way the invocation ended, a failure to
\* read or parse the key after the spawn included.
C13_DaemonTeardown ==
    fpc = "dropped" => \A d \in 1..Len(daemons) : daemons[d] # "running"

\* The directories of a colon separated list: its maximal pieces without a colon.
Segments(s) ==
    {SubSeq(s, i, j) : <<i, j>> \in
        {ij \in (1..(Len(s) + 1)) \X (0..Len(s)) :
            /\ ij[1] <= ij[2] + 1
            /\ (ij[1] = 1 \/ s[ij[1] - 1] = Colon)
            /\ (ij[2] = Len(s) \/ s[ij[2] + 1] = Colon)
            /\ \A k \in ij[1]..ij[2] : s[k] # Colon}}

C14_Step ==
    (Len(rets') = Len(rets) + 1 /\ ~fakeroot.some) =>
        LET r == rets'[Len(rets')]
            colons == Cardinality({k \in 1..Len(libdirs) : libdirs[k] = Colon})
        IN  /\ (Segments(libdirs) \cap libs = {}) =>
                 /\ r.kind = "findlib"
                 /\ Len(r.dirs) = colons + 1
                 /\ {r.dirs[i] : i \in 1..Len(r.dirs)} = Segments(libdirs)
            /\ (Segments(libdirs) \cap libs # {}) => r.kind # "findlib"
            /\ r.kind = "findlib" =>
                 /\ daemons' = daemons
                 /\ fakeroot' = NoneFakeRoot
                 /\ fpc' = fpc

\* C14: a call of fakeroot() with an empty memo slot and the library in none of
\* the directories of FAKEROOT_LIBDIRS returns the FindLibfakeroot error with
\* every directory of the list, spawns nothing and leaves the slot empty; the
\* check is made by every such call, so a later call with the library in place
\* does not return that error.
C14_FailFastLibrary == [][C14_Step]_vars

\* C14 witness: with a list of two directories, a first call returned the error
\* with both of them and spawned nothing; the library was then installed and the
\* second call succeeded.
C14_Witness ==
    /\ Len(rets) = 2
    /\ rets[1].kind = "findlib"
    /\ Len(rets[1].dirs) = 2
    /\ rets[2].kind = "ok"
    /\ Len(daemons) = 1

----------------------------------------------------------------------------
\* Properties of process_inner.

\* What the child has written to a descriptor so far.
Emitted(fd) == SubSeq(prog[fd], 1, written[fd])

\* The position of the trace entries.
TIdx == 1..Len(trace)

\* C15: command_new(id) comes before the spawn of the process of that id and
\* before every command_output(id), for the command and for the downstream
\* command of a pipeline, and no command_output(id) comes after command_exit(id);
\* command_exit is only delivered for an id that was registered.
C15_LifecycleOrder ==
    \A k \in TIdx :
        /\ (trace[k].c = "spawn" /\ callbacks) =>
               \E j \in 1..(k - 1) : trace[j] = Tr("command_new", trace[k].id)
        /\ trace[k].c \in {"command_output", "command_exit"} =>
               \E j \in 1..(k - 1) : trace[j] = Tr("command_new", trace[k].id)
        /\ trace[k].c = "command_exit" =>
               \A j \in (k + 1)..Len(trace) : trace[j] # Tr("command_output", trace[k].id)

\* C15 witness: a pipeline has returned, both of its processes had output
\* delivered to the observer, and both ids were de-registered.
C15_Witness ==
    /\ mode = "pipe"
    /\ pc = "done"
    /\ \A p \in Procs :
         \E i, j, k \in TIdx :
            /\ i < j /\ j < k
            /\ trace[i] = Tr("spawn", ids[p])
            /\ trace[j] = Tr("command_output", ids[p])
            /\ trace[k] = Tr("command_exit", ids[p])

\* C16: when process_inner has returned, with a status or with an error,
\* command_exit was delivered exactly once for every id that command_new
\* registered.
C16_ExitOnEveryPath ==
    pc = "done" =>
        \A k \in TIdx : trace[k].c = "command_new" =>
            Cardinality({j \in TIdx : trace[j] = Tr("command_exit", trace[k].id)}) = 1

\* Everything the policy sink got for one command, chunk after chunk.
RECURSIVE Flat(_, _)
Flat(chunks, p) ==
    IF chunks = <<>> THEN <<>>
    ELSE (IF Head(chunks).id = p THEN Head(chunks).chunk ELSE <<>>) \o Flat(Tail(chunks), p)

\* A stream as line-oriented consumers must see it: closed by a newline.
ClosedLine(bytes) ==
    IF bytes # <<>> /\ bytes[Len(bytes)] # NL THEN bytes \o <<NL>> ELSE bytes

\* C17: once a pipeline has returned, the sink of each process whose stderr was
\* forwarded got the bytes of that stream, followed by one synthetic newline if
\* the stream did not end with a newline, and by nothing otherwise.
C17_SyntheticNewline ==
    (mode = "pipe" /\ pc = "done" /\ result.status \in Statuses) =>
        \A fd \in {"err1", "err2"} :
            (wire[fd] \in Tokens /\ how[ProcOf(fd)] # "Null") =>
                Flat(fwd, ProcOf(fd)) = ClosedLine(prog[fd])

\* C18: what was written to the child's stdin and what is left of the payload
\* are together the payload, in order, and the child is sent nothing else; the
\* stdin socket is shut down once at most, and only with the whole payload
\* written; and process_inner returns Ok only with the whole payload written and
\* the socket shut down.
C18_InputFeeding ==
    /\ fed \o input = payload
    /\ Len(insock) <= Len(fed)
    /\ insock = SubSeq(fed, Len(fed) - Len(insock) + 1, Len(fed))
    /\ shut <= 1
    /\ shut = 1 => (fed = payload /\ input = <<>>)
    /\ (payload # <<>> /\ pc = "done" /\ result.status \in Statuses) =>
           (input = <<>> /\ shut = 1)

\* C18 witness: process_inner has returned Ok after it fed a payload longer than
\* the stdin socket holds, which took more than one write, and shut the socket
\* down.
C18_Witness ==
    /\ pc = "done"
    /\ result.status \in Statuses
    /\ Len(payload) > InCap
    /\ fed = payload
    /\ shut = 1

\* C19: when process_inner returns Ok, every process it spawned was waited on,
\* and no wait was issued before every registered stream had reached
\* end-of-stream.
C19_Reaped ==
    /\ (pc = "done" /\ result.status \in Statuses) => waited = spawned
    /\ waited # {} => open = {}

\* C20: once a child has terminated, by itself or killed, process_inner
\* eventually returns.
C20_Unwinds ==
    (\E p \in Procs : p \in spawned /\ exited[p] # "running") ~> (pc = "done")

\* C1: with stdout captured and stderr forwarded, whatever the two volumes and
\* the interleaving of the child's writes, the loop ends with an empty open set
\* and process_inner returns.
C1_NoDeadlock == (mode = "read") ~> (pc = "done" /\ open = {})

\* C1 witness: process_inner has returned for a child that wrote more than a
\* socket's capacity to both its stdout and its stderr.
C1_Witness ==
    /\ mode = "read"
    /\ pc = "done"
    /\ written["out1"] > SockCap
    /\ written["err1"] > SockCap

\* C2: for a pipeline, whenever the upstream process failed the status that
\* process_inner returns is the upstream's (also when the downstream failed too),
\* so the downstream's status is returned only when the upstream succeeded.
C2_UpstreamFailureWins ==
    (mode = "pipe" /\ pc = "done" /\ exited["p1"] = "fail") => result.who = "p1"

\* C3: the caller's buffer and the bytes still in the stdout socket are together
\* exactly what the child wrote to its stdout, in order, so that at return the
\* buffer is the child's stdout, without a byte of stderr or a synthetic newline;
\* and a stream whose bit was cleared from `open` is closed and fully drained.
C3_CaptureIntegrity ==
    /\ (mode = "read" /\ pc # "entry") => outbuf \o sock[token_out] = Emitted("out1")
    /\ (mode = "read" /\ pc = "done") => outbuf = prog["out1"]
    /\ \A t \in Registered : t \notin open => (WClosed(t) /\ sock[t] = <<>>)

\* C3 witness: process_read has returned a full-length capture that does not end
\* in a newline, for a child that also wrote to stderr, which was forwarded.
C3_Witness ==
    /\ mode = "read"
    /\ pc = "done"
    /\ Len(outbuf) = MaxVol
    /\ outbuf[MaxVol] # NL
    /\ written["err1"] = MaxVol
    /\ fwd # <<>>

----------------------------------------------------------------------------
\* download_sources: the partition, the routing and the order of attempts.

\* The outcome the rules give source i: VCS class, found, missing, agent
\* class, unknown protocol.
RuleOf(i) ==
    LET s == all_sources[i]
    IN  IF s.proto # "none" /\ s.proto \in vcs_agents THEN "vcs"
        ELSE IF s.exists THEN "found"
        ELSE IF s.proto = "none" THEN "SourceMissing"
        ELSE IF \E a \in 1..Len(dl_agents) : dl_agents[a].protocol = s.proto THEN "agent"
        ELSE "UnknownProtocol"

\* Every place source i was put: a class and its key, or the found list.
PlacesOf(i) ==
    {pl \in {<<"agent", p, k>> : p \in Protos, k \in 1..MaxSrc} :
            pl[3] <= Len(downloads[pl[2]]) /\ downloads[pl[2]][pl[3]] = i}
    \cup {pl \in {<<"vcs", p, k>> : p \in Protos, k \in 1..MaxSrc} :
            pl[3] <= Len(vcs_downloads[pl[2]]) /\ vcs_downloads[pl[2]][pl[3]] = i}
    \cup {pl \in {<<"found", "none", k>> : k \in 1..MaxSrc} :
            pl[3] <= Len(found) /\ found[pl[3]] = i}

\* The sources before n that the rules give the outcome "found", in order.
FoundBefore(n) == SelectSeq([k \in 1..(n - 1) |-> k], LAMBDA k : RuleOf(k) = "found")

\* C21: when get_downloads returns the two maps, every source is in exactly
\* one place, the one the rules give it (VCS class of its protocol, found and
\* in no class, agent class of its protocol); when it returns SourceMissing or
\* UnknownProtocol, that is what the rules give the source it names, every
\* source before it was placed by the rules, and nothing was retrieved.
C21_SourcePartition ==
    /\ apc = "curl" =>
         \A i \in 1..Len(all_sources) :
            /\ RuleOf(i) \in {"vcs", "found", "agent"}
            /\ Cardinality(PlacesOf(i)) = 1
            /\ \A pl \in PlacesOf(i) :
                 /\ pl[1] = RuleOf(i)
                 /\ (pl[1] # "found" => pl[2] = all_sources[i].proto)
    /\ apc = "curl" => found = FoundBefore(Len(all_sources) + 1)
    /\ (apc = "done" /\ aret.kind \in {"SourceMissing", "UnknownProtocol"}) =>
         /\ aret.n \in 1..Len(all_sources)
         /\ RuleOf(aret.n) = aret.kind
         /\ \A i \in 1..(aret.n - 1) : RuleOf(i) \in {"vcs", "found", "agent"}
         /\ found = FoundBefore(aret.n)
         /\ atrace = <<>>
    /\ (apc \notin {"idle", "entry"} /\
        \E i \in 1..Len(all_sources) : RuleOf(i) \in {"SourceMissing", "UnknownProtocol"}) =>
         (apc = "done" /\ aret.kind \in {"SourceMissing", "UnknownProtocol"})

\* C21 witness: get_downloads has returned the maps for a recipe with a VCS
\* source whose local copy exists, a source that was found, and a source for
\* an agent.
C21_Witness ==
    /\ apc = "curl"
    /\ \E i, j, k \in 1..Len(all_sources) :
         /\ RuleOf(i) = "vcs" /\ all_sources[i].exists
         /\ RuleOf(j) = "found"
         /\ RuleOf(k) = "agent"

\* C22: no source is retrieved by running curl as an external agent command:
\* the sources of every protocol whose agent is curl go through the bulk engine.
C22_BulkRouting ==
    \A k \in 1..Len(atrace) :
        atrace[k].op = "run" => Basename(AgentOf(atrace[k].via).command) # "curl"

\* C23: the agent commands run one at a time (a command that was started has
\* exited, or failed to start, before anything else is done), and a .part file
\* is renamed only right after the agent command of that source exited with
\* success; a source whose command failed to start or exited non-zero is never
\* renamed.
C23_AgentRename ==
    /\ \A k \in 1..Len(atrace) :
         atrace[k].op = "run" =>
            /\ k < Len(atrace)
            /\ atrace[k + 1].op \in {"exec_fail", "exit_ok", "exit_fail"}
            /\ atrace[k + 1].i = atrace[k].i
    /\ \A k \in 1..Len(atrace) :
         atrace[k].op \in {"rename", "rename_fail"} =>
            /\ k >= 3
            /\ atrace[k - 1] = Step("exit_ok", atrace[k].i, atrace[k].via)
            /\ atrace[k - 2] = Step("run", atrace[k].i, atrace[k].via)
    /\ \A k, j \in 1..Len(atrace) :
         (atrace[k].op \in {"exec_fail", "exit_fail"} /\ atrace[j].i = atrace[k].i) =>
            atrace[j].op \notin {"rename", "rename_fail"}

\* C23 witness: download_sources has returned after one agent source was
\* renamed and the agent command of the next one exited non-zero.
C23_Witness ==
    /\ apc = "done"
    /\ Len(atrace) >= 5
    /\ atrace[Len(atrace)].op = "exit_fail"
    /\ \E k \in 1..Len(atrace) : atrace[k].op = "rename"

StartOps == {"bulk", "run", "vcs"}
FailOps == {"bulk_fail", "exec_fail", "exit_fail", "rename_fail", "vcs_fail"}

----------------------------------------------------------------------------
\* The VCS backends.

HasCmd(name) == \E k \in 1..Len(vtrace) : vtrace[k].t = "cmd" /\ vtrace[k].name = name
HasEvent(name) == \E k \in 1..Len(vtrace) : vtrace[k].t = "event" /\ vtrace[k].name = name
\* The local copy was there when the operation was called.
HadCopy == IF vsrc.vcs = "git" THEN ventry.repo = "full" ELSE ventry.repo # "none"

C26_RemoteConsistency ==
    (/\ ventry.op = "download"
     /\ vsrc.vcs \in {"git", "hg"}
     /\ HadCopy
     /\ ~hold_ver
     /\ IF vsrc.vcs = "git"
        THEN trim_end_matches(ventry.origin, ".git") # trim_end_matches(vsrc.url, ".git")
        ELSE ventry.origin # vsrc.url)
    => (/\ ~HasCmd("update")
        /\ vret.kind \in {"RemotesDiffer", "Command"}
        /\ vret.kind = "RemotesDiffer" => vret.a = ventry.origin)

\* C27: materializing a git source whose tag fragment resolves to a tag object
\* of another name fails with RefsDiffer carrying the requested ref and the
\* name found, does not run the checkout, and leaves the files of the build
\* tree as they were.
C27_ForgedTag ==
    (/\ ventry.op = "extract"
     /\ vsrc.vcs = "git"
     /\ vsrc.fragment.key = "tag"
     /\ tagout \notin {"", vsrc.fragment.value}
     /\ HasCmd("tag")
     /\ vret.kind # "Command")
    => (/\ vret = RefsDiffer(Ref("", vsrc.fragment.value), tagout)
        /\ ~HasCmd("checkout")
        /\ work = ventry.work
        /\ files = ventry.files)

\* The fragment kinds of the support table.
Accepted(vcs) ==
    CASE vcs = "git" -> {"tag", "commit", "branch"}
      [] vcs = "svn" -> {"revision"}
      [] vcs = "hg" -> {"branch", "revision", "tag"}
      [] vcs = "fossil" -> {"branch", "commit", "tag"}
      [] vcs = "bzr" -> {"revision"}
      [] OTHER -> {}
\* The operation of a backend that looks at the fragment.
Applies == IF vsrc.vcs = "svn" THEN ventry.op = "download" ELSE ventry.op = "extract"
\* The ref a backend uses without a fragment.
DefaultRefs(vcs) ==
    CASE vcs = "git" -> {DefaultFiles}
      [] vcs = "hg" -> {Ref("", "@"), Ref("", "default")}
      [] vcs = "fossil" -> {Ref("", "tip")}
      [] vcs = "bzr" -> {Ref("", "last:1")}
      [] OTHER -> {}

Hashed(vcs) ==
    CASE vcs = "git" -> {"tag", "commit"}
      [] vcs = "hg" -> {"tag", "revision"}
      [] vcs = "bzr" -> {"revision"}
      [] OTHER -> {}

\* C29: checksum_vcs fails with checksums-not-supported for svn and fossil and
\* runs nothing; for git, hg and bzr it runs the export only for the kinds of
\* the table, and a hash it returns is the one of the export at the fragment's
\* revision; another kind fails with UnsupportedFragment and no fragment gives
\* SKIP, both without a command.
C29_ChecksumTable ==
    ventry.op = "checksum" =>
        /\ vsrc.vcs \in {"svn", "fossil"} =>
              (vret = VErr("DoesNotSupportChecksums") /\ vtrace = <<>>)
        /\ vsrc.vcs \in {"git", "hg", "bzr"} =>
              /\ vsrc.fragment.key \in Hashed(vsrc.vcs) =>
                    /\ vtrace = <<C("archive")>>
                    /\ vret.kind \in {"hash", "Command", "IO"}
                    /\ vret.kind = "hash" => vret = HashOf(vsrc.fragment.value)
              /\ (vsrc.fragment.key \notin Hashed(vsrc.vcs) \cup {"none"}) =>
                    (vret = UnsupportedFragment(vsrc.vcs, vsrc.fragment) /\ vtrace = <<>>)
              /\ vsrc.fragment.key = "none" => (vret = Skip /\ vtrace = <<>>)
        /\ vret.kind = "hash" => vsrc.fragment.key \in Hashed(vsrc.vcs)

\* C29 witness: checksum_vcs has returned the hash of a bzr revision.
C29_Witness ==
    /\ ventry.op = "checksum"
    /\ vsrc.vcs = "bzr"
    /\ vret = HashOf(vsrc.fragment.value)

\* C30: observer failure is surfaced. When the observer returned an error for a
\* DownloadEvent of the batch (DownloadStart, Init, Progress, Completed, Failed
\* or DownloadEnd), download_curl_sources returns the observer's error, not
\* another error and not Ok.
C30_ObserverFailureSurfaced ==
    (dpc = "done" /\ cberr) => ret.kind = "observer"

\* C39: an unsupported fragment has no side effect. Whenever a fetch or a
\* materialize fails with UnsupportedFragment, no VCS command was run in that
\* call and the build tree is as it was.
C39_UnsupportedNoEffect ==
    (ventry.op \in {"download", "extract"} /\ vret.kind = "UnsupportedFragment") =>
        /\ \A k \in 1..Len(vtrace) : vtrace[k].t # "cmd"
        /\ work = ventry.work
        /\ files = ventry.files

\* The class a step of download_sources belongs to: bulk, agent, VCS.
ClassOf(op) ==
    CASE op \in {"bulk", "bulk_fail"} -> 1
      [] op \in {"vcs", "vcs_fail"} -> 3
      [] OTHER -> 2

\* C37: classification precedes transfer and later classes depend on earlier
\* ones. With a source that get_downloads refuses (SourceMissing or
\* UnknownProtocol) no transfer of any source is ever started and
\* download_sources returns that error; otherwise the classes run in the order
\* bulk, agent, VCS, and after a failure nothing more is started.
C37_ClassifyFirst ==
    /\ (\E i \in 1..Len(all_sources) : RuleOf(i) \in {"SourceMissing", "UnknownProtocol"}) =>
          /\ atrace = <<>>
          /\ apc = "done" => aret.kind \in {"SourceMissing", "UnknownProtocol"}
    /\ \A j, k \in 1..Len(atrace) : j < k => ClassOf(atrace[j].op) <= ClassOf(atrace[k].op)
    /\ \A k \in 1..Len(atrace) :
          atrace[k].op \in FailOps => (k = Len(atrace) /\ apc = "done" /\ Returns(aret))

\* C37 witness: download_sources has returned UnknownProtocol for the last
\* source of a recipe whose first source has an agent, and nothing was started.
C37_Witness ==
    /\ apc = "done"
    /\ Len(all_sources) >= 2
    /\ RuleOf(1) = "agent"
    /\ aret = Err("UnknownProtocol", Len(all_sources), 0)
    /\ atrace = <<>>

\* The transfer of handle i went all the way: a status in 200..=299, the .part
\* file renamed to the final path, Completed sent, its message processed.
Completed(i) ==
    /\ handles[i].xfer = "handled"
    /\ handles[i].res = "ok"
    /\ InRange(handles[i].code)
    /\ handles[i].renamed
    /\ handles[i].name \in finalf
    /\ \E k \in 1..Len(events) : events[k] = Ev("Completed", handles[i].n, 0)

\* C36: success means all completed. download_curl_sources returns Ok only
\* when every source of the batch was launched and its transfer went all the
\* way; and the control loop never ends, with Ok or with the error of
\* DownloadEnd alone, while a launched transfer has not had its completion
\* message processed.
C36_SuccessMeansAll ==
    /\ (dpc = "done" /\ ret = Ok) =>
          /\ sources = <<>>
          /\ Len(handles) = total
          /\ \A i \in 1..Len(handles) : Completed(i)
    /\ (dpc = "done" /\ events # <<>> /\ events[Len(events)] = Ev("End", 0, 0)
         /\ ErrHandle(handles) = 0) =>
          /\ msgq = <<>>
          /\ \A i \in 1..Len(handles) : handles[i].xfer = "handled"

\* C36 witness: a batch of two sources has returned Ok.
C36_Witness ==
    /\ dpc = "done"
    /\ ret = Ok
    /\ total = 2
    /\ Completed(1) /\ Completed(2)

\* C31: private .part files. No two transfers that are in flight at the same
\* time write to the same .part path, also when two sources of the batch have
\* the same file name.
C31_PrivatePart ==
    \A i, j \in 1..Len(handles) :
        (i # j /\ handles[i].xfer \in {"active", "paused"}
               /\ handles[j].xfer \in {"active", "paused"}) =>
            handles[i].name # handles[j].name

\* The Init events sent so far, in order.
Inits == SelectSeq(events, LAMBDA e : e.e = "Init")

\* C34: session index. The k-th launched transfer has index k, so the indices
\* of a batch are pairwise distinct and lie in 1..total; and every Progress,
\* Completed and Failed event carries the index of a launched session, the one
\* its Init carried.
C34_SessionIndex ==
    /\ \A i \in 1..Len(handles) : handles[i].n = i /\ i <= total
    /\ \A k \in 1..Len(Inits) : Inits[k].n = k /\ k <= total
    /\ \A k \in 1..Len(events) :
          events[k].e \in {"Progress", "Completed", "Failed"} =>
             /\ events[k].n \in 1..Len(handles)
             /\ \E j \in 1..(k - 1) : events[j] = Ev("Init", events[k].n, 0)

\* C34 witness: the third session of a batch of three has sent Progress while
\* the second is still in flight.
C34_Witness ==
    /\ total = 3
    /\ Len(handles) = 3
    /\ handles[2].xfer = "active"
    /\ events[Len(events)] = Ev("Progress", 3, 0)

----------------------------------------------------------------------------
\* process_inner, any arguments.

\* What the downstream command wrote to its stdout.
Downstream == SelectSeq(iwrote, LAMBDA c : c.st = "out2")

ClaimedPolicySink(p) ==
    CASE ihow[p] = "Inherit" -> {Sink("terminal", 0)}
      [] ihow[p] = "Callback" -> {Sink("observer", IdOf(p))}
      [] ihow[p] = "File" -> {Sink("file", 0)}
      [] ihow[p] = "Null" -> {}
\* The sinks of the claim for a chunk a child wrote to stream st.
ClaimedSinks(st) ==
    (IF iargs.output /\ IsStdout(st) THEN {Sink("buffer", 0)} ELSE {})
    \cup (IF iargs.log THEN {Sink("log", 0)} ELSE {})
    \cup (IF IsStdout(st) /\ iargs.output /\ Ignore(iargs)
          THEN {} ELSE ClaimedPolicySink(StreamProc(st)))

\* C33: output fan-out. Every chunk read is written to exactly the sinks of
\* the claim: the caller buffer if requested and the chunk is of the captured
\* stdout, the log if supplied, and the policy sink of the command that wrote
\* it unless its stdout is capture-only; no chunk is read twice, and the
\* buffer holds the chunks given to it, in order.
C33_FanOut ==
    /\ \A k \in 1..Len(ideliv) : ideliv[k].to = ClaimedSinks(ideliv[k].chunk.st)
    /\ \A j, k \in 1..Len(ideliv) : j # k => ideliv[j].chunk # ideliv[k].chunk
    /\ ibuf = [k \in 1..Len(ibuf) |->
                 SelectSeq(ideliv, LAMBDA d : Sink("buffer", 0) \in d.to)[k].chunk]
    /\ Len(ibuf) = Len(SelectSeq(ideliv, LAMBDA d : Sink("buffer", 0) \in d.to))

\* C33 witness: a captured stdout chunk went to the buffer and the log and
\* not to the observer, and a stderr chunk of the same command to the log and
\* the observer.
C33_Witness ==
    /\ ~iargs.pipe
    /\ \E j, k \in 1..Len(ideliv) :
         /\ ideliv[j].chunk.st = "out1"
         /\ ideliv[j].to = {Sink("buffer", 0), Sink("log", 0)}
         /\ ideliv[k].chunk.st = "err1"
         /\ ideliv[k].to = {Sink("log", 0), Sink("observer", 0)}

----------------------------------------------------------------------------
\* run_function_internal.

\* C35: privileged phase gating. fakeroot() is called, and a daemon started,
\* only for a phase whose name starts with "package"; such a phase is spawned
\* only when fakeroot() returned a key, with the preload library and that key
\* set on the command; the other phases never start a daemon and get no such
\* environment; and a phase for which fakeroot() failed is not spawned.
C35_PhaseGating ==
    \A k \in 1..Len(phases) :
        LET ph == phases[k]
            package == ph.function[1] = "package"
        IN  /\ (ph.ret # NoCall) = package
            /\ ph.after # ph.before => package
            /\ ~package => ph.env = NoEnv
            /\ (package /\ ph.spawned) =>
                  (ph.ret.kind = "ok" /\ ph.env = FakerootEnv(ph.ret.key))
            /\ (package /\ ph.ret.kind # "ok") => ~ph.spawned

\* C35 witness: build was spawned without fakeroot, then package was spawned
\* under a daemon started for it, then a split package function reused it.
C35_Witness ==
    /\ Len(phases) = 3
    /\ phases[1].function = <<"build">> /\ phases[1].spawned
    /\ phases[2].function = <<"package">> /\ phases[2].spawned
    /\ phases[2].after = phases[2].before + 1
    /\ phases[3].function = <<"package", "_foo">> /\ phases[3].spawned
    /\ phases[3].after = phases[3].before
    /\ phases[3].env = phases[2].env

\* The processes whose id was allocated by setup_out in this call.
Allocated ==
    {p \in Procs : pc # "entry" /\ (p = "p2" => makepkg_id = ids["p1"] + 2)}

C38_State ==
    /\ \A j, k \in TIdx :
         (j < k /\ trace[j].c = "command_new" /\ trace[k].c = "command_new") =>
             trace[j].id < trace[k].id
    /\ \A k \in TIdx : trace[k].id < makepkg_id
    /\ \A p, q \in Allocated : p # q => ids[p] # ids[q]
    /\ \A p \in Allocated : ids[p] < makepkg_id
    /\ \A k \in TIdx : trace[k].c \in {"command_output", "command_exit"} =>
         \E p \in Allocated : trace[k].id = ids[p]

C38_Step ==
    /\ makepkg_id' >= makepkg_id
    /\ (pc \in {"read", "closed"} /\ Len(trace') = Len(trace) + 1) =>
         \E fd \in Fds :
            /\ wire[fd] = cur.tok
            /\ trace'[Len(trace')] = Tr("command_output", ids[ProcOf(fd)])
    /\ (pc \notin {"entry", "read", "closed"} /\ Len(trace') = Len(trace) + 1) =>
         \E p \in Allocated :
            /\ trace'[Len(trace')] = Tr("command_exit", ids[p])
            /\ \A k \in TIdx : trace[k] # Tr("command_exit", ids[p])

\* C38: the ids handed to command_new strictly increase in registration order
\* and are all below the Makepkg's counter, which never goes back, so that they
\* are pairwise distinct over all the commands run through one Makepkg; the two
\* processes of a pipeline get two different ids; every command_output carries
\* the id of the process whose stream was read, and every command_exit the id
\* of a process of this call, once.
C38_UniqueIds == [][C38_State' /\ C38_Step]_vars

\* C38 witness: a pipeline has returned; the observer was handed two ids, the
\* downstream one greater, and heard output and the exit under each of them.
C38_Witness ==
    /\ mode = "pipe" /\ pc = "done" /\ callbacks
    /\ ids["p1"] < ids["p2"]
    /\ \E i, j \in TIdx :
         /\ i < j
         /\ trace[i] = Tr("command_new", ids["p1"])
         /\ trace[j] = Tr("command_new", ids["p2"])
    /\ \A p \in Procs :
         /\ \E k \in TIdx : trace[k] = Tr("command_output", ids[p])
         /\ \E k \in TIdx : trace[k] = Tr("command_exit", ids[p])

====
